---- MODULE Spec2Model ----
(***************************************************************************)
(* A model of the feed of src/index.js: an append-only log whose blocks    *)
(* are the leaves of a Merkle tree kept in flat-tree numbering, with the   *)
(* storage, the bitfield, the tree index and the hash library it calls.    *)
(*                                                                         *)
(* One feed object lives over one storage.  The feed is either a writer    *)
(* (created without a key) or a reader (created with the key of a remote   *)
(* writer, whose blocks and proofs it receives through put).  Handlers of  *)
(* the feed are operators from a world record to a world record, so that   *)
(* a handler that calls another one synchronously is their composition;    *)
(* an action of the specification is one handler run to its end.           *)
(***************************************************************************)
EXTENDS Integers, Sequences, FiniteSets, TLC

VARIABLES feed, storage, batch, appends, puts, low, io, ready, timers, out, ghost, opts

vars == <<feed, storage, batch, appends, puts, low, io, ready, timers, out, ghost, opts>>

(***************************************************************************)
(* Bounds of the model.                                                    *)
(***************************************************************************)
\* the writer appends at most this many blocks
MaxBlocks == 3
\* the remote writer of a reader feed holds at most this many blocks
MaxRemote == 4
\* storage writes that may fail in one run
MaxFaults == 1
\* crashes (process deaths followed by a new open) in one run\* closes followed by a reopen in one run
MaxReopens == 1

MaxAppends == 3

MaxPuts == 1

MaxReads == 1

MaxEarly == 1

MaxCalls == 2

MaxAppendCalls == 3

MaxPutCalls == 3

MaxWaitCalls == 4

MaxTimeoutCalls == 3
\* the calls and faults of a run of SpecOpen
MaxOpenCalls == 3
\* the puts outstanding at once, and the calls and faults, of a run of SpecPuts
MaxOverlap == 2

MaxOverlapCalls == 2
\* the calls and faults of a run of SpecSync
MaxSyncCalls == 3

MaxGet == 1

MaxSeek == 2

MaxDownloads == 1

(***************************************************************************)
(* Generic helpers.                                                        *)
(***************************************************************************)
Max(a, b) == IF a > b THEN a ELSE b

RECURSIVE Pow2(_)
Pow2(n) == IF n = 0 THEN 1 ELSE 2 * Pow2(n - 1)

SetMax(S) == CHOOSE x \in S : \A y \in S : y <= x

RECURSIVE SumSizes(_)
SumSizes(s) == IF s = << >> THEN 0 ELSE Head(s).size + SumSizes(Tail(s))

\* the sequence s with element k removed the way unordered-array-remove does:
\* the last element takes its place
RemoveSwap(s, k) ==
  IF k = Len(s) THEN SubSeq(s, 1, Len(s) - 1)
  ELSE [j \in 1..(Len(s) - 1) |-> IF j = k THEN s[Len(s)] ELSE s[j]]

\* a finite map with one entry written
MapPut(m, k, v) == [x \in (DOMAIN m) \cup {k} |-> IF x = k THEN v ELSE m[x]]

(***************************************************************************)
(* flat-tree: index arithmetic of the in-order binary tree.                *)
(***************************************************************************)
RECURSIVE Depth(_)
Depth(i) == IF i % 2 = 0 THEN 0 ELSE 1 + Depth((i - 1) \div 2)

Offset(i) == i \div Pow2(Depth(i) + 1)

Index(d, o) == (1 + 2 * o) * Pow2(d) - 1

Parent(i) == Index(Depth(i) + 1, Offset(i) \div 2)

Sibling(i) ==
  IF Offset(i) % 2 = 0 THEN Index(Depth(i), Offset(i) + 1)
  ELSE Index(Depth(i), Offset(i) - 1)

LeftChild(i) == Index(Depth(i) - 1, 2 * Offset(i))

RightChild(i) == Index(Depth(i) - 1, 2 * Offset(i) + 1)

LeftSpan(i) == Offset(i) * Pow2(Depth(i) + 1)

RightSpan(i) == (Offset(i) + 1) * Pow2(Depth(i) + 1) - 2

RECURSIVE LargestPow2(_)
LargestPow2(n) == IF n < 2 THEN 1 ELSE 2 * LargestPow2(n \div 2)

RECURSIVE FullRootsFrom(_, _)
FullRootsFrom(n, offset) ==
  IF n = 0 THEN << >>
  ELSE LET factor == LargestPow2(n)
       IN  <<offset + factor - 1>> \o FullRootsFrom(n - factor, offset + 2 * factor)

\* flat.fullRoots(index), index even: the roots over the first index/2 leaves
FullRoots(index) == FullRootsFrom(index \div 2, 0)

isBlock(index) == index % 2 = 0

(***************************************************************************)
(* Values, codecs, keys, hashes and signatures.  A buffer is a sequence of *)
(* bytes; a hash is the sequence of numbers that went into it, so that two *)
(* hashes are equal exactly when their inputs are.                         *)
(***************************************************************************)
\* the values a caller appends
Values == {<<1>>, <<2, 2>>}

Codecs == {"binary", "json"}

\* the byte that ends a line of ndjson
Newline == 10

encode(codec, v) == IF codec = "json" THEN v \o <<Newline>> ELSE v

\* what decode makes of bytes that are no line of ndjson
ParseError == <<0>>

decode(codec, buf) ==
  IF codec = "json"
  THEN IF Len(buf) > 0 /\ buf[Len(buf)] = Newline /\ (\A k \in 1..(Len(buf) - 1) : buf[k] \notin {0, Newline})
       THEN SubSeq(buf, 1, Len(buf) - 1)
       ELSE ParseError
  ELSE buf

NoKey == << >>

\* the key pair signatures.keyPair() makes
PublicKey == <<3, 1>>
SecretKey == <<5, 1>>

hash_data(data) == <<0, Len(data)>> \o data

hash_parent(a, b) ==
  IF a.index > b.index THEN <<1, a.size + b.size>> \o b.hash \o a.hash
  ELSE <<1, a.size + b.size>> \o a.hash \o b.hash

RECURSIVE TreeInput(_)
TreeInput(roots) ==
  IF roots = << >> THEN << >>
  ELSE Head(roots).hash \o <<Head(roots).index, Head(roots).size>> \o TreeInput(Tail(roots))

hash_tree(roots) == <<2>> \o TreeInput(roots)

NoSig == << >>

sign(message, secretKey) == <<4>> \o secretKey \o message

verify(message, signature, publicKey) ==
  /\ publicKey = PublicKey
  /\ signature = sign(message, SecretKey)

Node(index, hash, size) == [index |-> index, hash |-> hash, size |-> size]

(***************************************************************************)
(* merkle-tree-stream/generator: the incremental tree builder.  A          *)
(* generator is the number of leaves it has consumed and its current       *)
(* roots.                                                                  *)
(***************************************************************************)
NoMerkle == [blocks |-> 0 - 1, roots |-> << >>]

\* merkle(hash, roots): a generator that continues after the given roots
merkle(roots) ==
  [blocks |-> IF roots = << >> THEN 0 ELSE 1 + RightSpan(roots[Len(roots)].index) \div 2,
   roots  |-> roots]

RECURSIVE MerkleCollapse(_, _)
MerkleCollapse(roots, nodes) ==
  IF Len(roots) > 1 /\ Parent(roots[Len(roots) - 1].index) = Parent(roots[Len(roots)].index)
  THEN LET left  == roots[Len(roots) - 1]
           right == roots[Len(roots)]
           top   == Node(Parent(left.index), hash_parent(left, right), left.size + right.size)
       IN  MerkleCollapse(SubSeq(roots, 1, Len(roots) - 2) \o <<top>>, nodes \o <<top>>)
  ELSE [roots |-> roots, nodes |-> nodes]

\* generator.next(data): the generator afterwards and the nodes it produced,
\* the leaf first
MerkleNext(m, data) ==
  LET leaf == Node(2 * m.blocks, hash_data(data), Len(data))
      r    == MerkleCollapse(m.roots \o <<leaf>>, <<leaf>>)
  IN  [merkle |-> [blocks |-> m.blocks + 1, roots |-> r.roots], nodes |-> r.nodes]

(***************************************************************************)
(* lib/tree-index over the tree bitfield: the set of tree indices whose    *)
(* node is stored.                                                         *)
(***************************************************************************)
RECURSIVE TreeUp(_, _)
TreeUp(bits, index) ==
  IF Sibling(index) \in bits
  THEN IF Parent(index) \in bits THEN bits
       ELSE TreeUp(bits \cup {Parent(index)}, Parent(index))
  ELSE bits

\* tree.set(index): sets the bit and the bit of every ancestor whose two
\* children are then set
TreeSet(bits, index) == IF index \in bits THEN bits ELSE TreeUp(bits \cup {index}, index)

RECURSIVE TreeSetAll(_, _)
TreeSetAll(bits, indexes) ==
  IF indexes = << >> THEN bits ELSE TreeSetAll(TreeSet(bits, Head(indexes)), Tail(indexes))

RECURSIVE TreeTop(_, _)
TreeTop(bits, top) ==
  IF Parent(top) \in bits /\ Sibling(top) \in bits THEN TreeTop(bits, Parent(top)) ELSE top

RECURSIVE TreeLeftDown(_, _, _)
TreeLeftDown(bits, top, depth) ==
  IF top \notin bits /\ depth > 0 THEN TreeLeftDown(bits, LeftChild(top), depth - 1)
  ELSE [top |-> top, depth |-> depth]

RECURSIVE TreeRightDown(_, _, _)
TreeRightDown(bits, top, depth) ==
  IF depth = 0 THEN top
  ELSE LET first == LeftChild(Index(depth, Offset(top) + 1))
           r     == TreeLeftDown(bits, first, depth - 1)
       IN  TreeRightDown(bits, r.top, r.depth)

\* tree.verifiedBy(index): twice the number of leaves of the tree that the
\* root above index belongs to
TreeVerifiedBy(bits, index) ==
  IF index \notin bits THEN 0
  ELSE LET root == TreeTop(bits, index)
           top  == TreeRightDown(bits, root, Depth(root))
       IN  IF top \in bits THEN top + 2 ELSE top

RECURSIVE SeqFilterNe(_, _)
SeqFilterNe(s, x) ==
  IF s = << >> THEN << >>
  ELSE (IF Head(s) = x THEN << >> ELSE <<Head(s)>>) \o SeqFilterNe(Tail(s), x)

RECURSIVE TreeProofFrom(_, _, _)
TreeProofFrom(bits, next, nodes) ==
  IF Sibling(next) \notin bits
  THEN LET verifiedBy == TreeVerifiedBy(bits, next)
       IN  [ok |-> TRUE, nodes |-> nodes \o SeqFilterNe(FullRoots(verifiedBy), next),
            verifiedBy |-> verifiedBy]
  ELSE TreeProofFrom(bits, Parent(next), nodes \o <<Sibling(next)>>)

\* tree.proof(index, {}): the indices of the nodes that prove the node at
\* index to a remote that holds nothing, and the length they are verified by
TreeProof(bits, index) ==
  IF index \notin bits THEN [ok |-> FALSE, nodes |-> << >>, verifiedBy |-> 0]
  ELSE TreeProofFrom(bits, index, << >>)

(***************************************************************************)
(* lib/storage: the files.  nodes and signatures are finite maps from the  *)
(* record number to the record; data is the bytes of the data file, where  *)
(* a byte never written reads as 0; bitfield is the bitfield as last       *)
(* written.                                                                *)
(***************************************************************************)
EmptyBits == [data |-> {}, tree |-> {}]

\* hasBitfield: the bitfield file has been written, so that it has a length
EmptyStorage ==
  [nodes |-> << >>, data |-> << >>, signatures |-> << >>, bitfield |-> EmptyBits,
   hasBitfield |-> FALSE, key |-> NoKey, secretKey |-> NoKey, closed |-> FALSE]

HasNode(st, index) == ~st.closed /\ index \in DOMAIN st.nodes

HasSignature(st, index) == ~st.closed /\ index \in DOMAIN st.signatures

RECURSIVE FindNode(_, _)
FindNode(nodes, index) ==
  IF nodes = << >> THEN << >>
  ELSE IF Head(nodes).index = index THEN <<Head(nodes)>> ELSE FindNode(Tail(nodes), index)

\* the node at index, from the cached nodes first and from the tree file next,
\* as a sequence of none or one
LookupNode(st, cached, index) ==
  IF FindNode(cached, index) # << >> THEN FindNode(cached, index)
  ELSE IF HasNode(st, index) THEN <<st.nodes[index]>> ELSE << >>

RECURSIVE LookupNodes(_, _, _)
LookupNodes(st, cached, indexes) ==
  IF indexes = << >> THEN << >>
  ELSE LookupNode(st, cached, Head(indexes)) \o LookupNodes(st, cached, Tail(indexes))

\* storage.dataOffset(index, cachedNodes): where block index lies in the data
\* file and how long it is
dataOffset(st, cached, index) ==
  LET roots == FullRoots(2 * index)
      found == LookupNodes(st, cached, roots)
      last  == LookupNode(st, cached, 2 * index)
  IN  IF st.closed \/ Len(found) # Len(roots) \/ last = << >>
      THEN [ok |-> FALSE, offset |-> 0, size |-> 0]
      ELSE [ok |-> TRUE, offset |-> SumSizes(found), size |-> last[1].size]

\* storage.getData(index)
getData(st, index) ==
  LET at == dataOffset(st, << >>, index)
  IN  IF ~at.ok \/ at.offset + at.size > Len(st.data) THEN [ok |-> FALSE, data |-> << >>]
      ELSE [ok |-> TRUE, data |-> SubSeq(st.data, at.offset + 1, at.offset + at.size)]

\* a write of bytes at a byte offset of the data file
DataWrite(file, offset, bytes) ==
  [k \in 1..Max(Len(file), offset + Len(bytes)) |->
     IF k > offset /\ k <= offset + Len(bytes) THEN bytes[k - offset]
     ELSE IF k <= Len(file) THEN file[k] ELSE 0]

RECURSIVE PutNodes(_, _)
PutNodes(nodes, new) ==
  IF new = << >> THEN nodes ELSE PutNodes(MapPut(nodes, Head(new).index, Head(new)), Tail(new))

(***************************************************************************)
(* Feed.prototype.proof, for a feed whose tree bits are bits and whose     *)
(* storage is st: the nodes of the proof and, on a live feed, the          *)
(* signature that verifies them.                                           *)
(***************************************************************************)
NoProof == [ok |-> FALSE, nodes |-> << >>, signature |-> NoSig]

proof(live, bits, st, index) ==
  LET p        == TreeProof(bits, 2 * index)
      nodes    == LookupNodes(st, << >>, p.nodes)
      needsSig == live /\ p.verifiedBy # 0
      slot     == p.verifiedBy \div 2 - 1
  IN  IF ~p.ok \/ Len(nodes) # Len(p.nodes) \/ (needsSig /\ ~HasSignature(st, slot)) THEN NoProof
      ELSE [ok |-> TRUE, nodes |-> nodes,
            signature |-> IF needsSig THEN st.signatures[slot] ELSE NoSig]

(***************************************************************************)
(* The remote writer a reader feed replicates from: the feed that results  *)
(* from appending the blocks RemoteBlock(0), RemoteBlock(1), ... to an     *)
(* empty feed, as a function of their number.                              *)
(***************************************************************************)
RemoteBlock(k) == IF k % 2 = 0 THEN <<1>> ELSE <<2, 2>>

\* a block that is not the remote writer's
TamperedBlock(k) == [RemoteBlock(k) EXCEPT ![1] = 9]

RECURSIVE RemoteFeed(_, _)
RemoteFeed(n, live) ==
  IF n = 0 THEN [merkle |-> merkle(<< >>), tree |-> {}, storage |-> EmptyStorage]
  ELSE LET prev == RemoteFeed(n - 1, live)
           r    == MerkleNext(prev.merkle, RemoteBlock(n - 1))
           sig  == sign(hash_tree(r.merkle.roots), SecretKey)
       IN  [merkle  |-> r.merkle,
            tree    |-> TreeSet(prev.tree, 2 * (n - 1)),
            storage |-> [prev.storage EXCEPT
                           !.nodes = PutNodes(@, r.nodes),
                           !.signatures = IF live THEN MapPut(@, n - 1, sig) ELSE @]]

\* the key of the remote writer: its public key, or the hash of its roots
\* when it is not live
\* the remote writers of the model, by their length and whether they are live
RemoteFeeds == [n \in 0..MaxRemote, live \in BOOLEAN |-> RemoteFeed(n, live)]

RemoteKey(n, live) == IF live THEN PublicKey ELSE hash_tree(RemoteFeeds[n, live].merkle.roots)

\* the proof the remote writer gives for block index when it holds n blocks
RemoteProofs ==
  [n \in 1..MaxRemote, live \in BOOLEAN, index \in 0..(MaxRemote - 1) |->
     IF index < n
     THEN proof(live, RemoteFeeds[n, live].tree, RemoteFeeds[n, live].storage, index)
     ELSE NoProof]

RemoteProof(n, live, index) == RemoteProofs[n, live, index]

(***************************************************************************)
(* The world: the feed object, its storage, and the work in flight.        *)
(*                                                                         *)
(*   feed     the fields of the Feed object                                *)
(*   storage  the files                                                    *)
(*   batch    the state of the atomic batcher behind append                *)
(*   appends  the _append calls whose writes are in flight, by number      *)
(*   puts     the _write calls whose writes are in flight, by number       *)
(*   low      the state of the last-one-wins wrapper behind _sync          *)
(*   io       the storage operations issued and not yet completed          *)
(*   ready    the calls that wait for open to finish                       *)
(*   timers   the callbacks wrapped by timeoutCallback, by the callback    *)
(*            they wrap: whether the timer is set and whether it has fired *)
(*   out      the callbacks of callers invoked by the last step            *)
(*   ghost    what the checks need of the past: the faults injected so far,*)
(*            the calls whose callback is outstanding, the state at the    *)
(*            values reported as appended, the state at the last close and *)
(*            at the last crash                                            *)
(*   opts     the arguments the feed was created with                      *)
(***************************************************************************)
World ==
  [feed |-> feed, storage |-> storage, batch |-> batch, appends |-> appends,
   puts |-> puts, low |-> low, io |-> io, ready |-> ready, timers |-> timers, out |-> out,
   ghost |-> ghost, opts |-> opts, stack |-> << >>]

NoNode == Node(0 - 1, << >>, 0)

\* a storage operation in flight: what it is, whose it is (k, id, n), and
\* its arguments
IoOp(op, k, id, n, index, node, bytes, bits, cached) ==
  [op |-> op, k |-> k, id |-> id, n |-> n, index |-> index, node |-> node,
   bytes |-> bytes, bits |-> bits, cached |-> cached, t |-> 0]

\* the file of the storage an operation goes to
File(op) ==
  CASE op = "putNode" -> "tree"
    [] op \in {"write", "putData", "getData"} -> "data"
    [] op = "putSignature" -> "signatures"
    [] op = "putBitfield" -> "bitfield"
    [] OTHER -> "key"

\* the operations of a file complete in the order they were issued in: t is
\* the place of an operation in the queue of its file
Queued(ops, file) == {o \in ops : File(o.op) = file}

Ticket(ops, file) == IF Queued(ops, file) = {} THEN 1 ELSE SetMax({o.t : o \in Queued(ops, file)}) + 1

IsNext(ops, o) == \A x \in Queued(ops, File(o.op)) : o.t <= x.t

AddIo(w, o) == [w EXCEPT !.io = @ \cup {[o EXCEPT !.t = Ticket(w.io, File(o.op))]}]

\* a callback of a caller, invoked
\* what is observed of a call when its callback is invoked; see Obs
NoObs ==
  [k |-> "", how |-> "", wait |-> FALSE, had |-> FALSE, has |-> FALSE, stored |-> FALSE,
   same |-> FALSE, kept |-> FALSE, faulted |-> FALSE, right |-> FALSE, early |-> FALSE,
   finalized |-> FALSE, twice |-> FALSE, mixed |-> FALSE, seq |-> 0, data |-> << >>]

Event(k, id, err, val, b, start, startBytes) ==
  [k |-> k, id |-> id, err |-> err, val |-> val, batch |-> b, start |-> start,
   startBytes |-> startBytes, obs |-> NoObs]

Emit(w, e) == [w EXCEPT !.out = Append(@, e)]

\* a callback held by the feed: the one _append was given, with the batch and
\* the length and byteLength _append started from; the one of a put; or noop
Cb(k, id, b, start, startBytes) ==
  [k |-> k, id |-> id, batch |-> b, start |-> start, startBytes |-> startBytes]

CbNoop == Cb("noop", 0, << >>, 0, 0)

\* a call that waits for open
Call(k, id, index, data, prf, b, wait) ==
  [k |-> k, id |-> id, index |-> index, data |-> data, proof |-> prf, batch |-> b,
   wait |-> wait, timeout |-> FALSE]

NewId(m) == CHOOSE i \in 1..(Cardinality(DOMAIN m) + 1) : i \notin DOMAIN m

\* the key the feed is created with
PassedKey(o) == IF o.role = "reader" THEN RemoteKey(o.remoteLen, o.remoteLive) ELSE NoKey

\* a waiter of the waiting list
Waiter(bytes, index, start, end, hash, callback) ==
  [bytes |-> bytes, index |-> index, start |-> start, end |-> end, hash |-> hash,
   callback |-> callback]

\* function Feed: the object after construction, with open under way
Feed(o) ==
  [live |-> o.live, sparse |-> o.sparse, length |-> 0, byteLength |-> 0,
   key |-> PassedKey(o), secretKey |-> NoKey, bitfield |-> {}, tree |-> {},
   dirty |-> FALSE, writable |-> FALSE, readable |-> TRUE, opened |-> FALSE,
   opening |-> "wait", merkle |-> NoMerkle, waiting |-> << >>,
   selections |-> IF o.sparse THEN << >>
                  ELSE <<[_index |-> 0, hash |-> FALSE, start |-> 0, end |-> 0 - 1,
                          linear |-> FALSE, sid |-> 0]>>]

\* thunky: a call made before open has finished waits for it; after a failed
\* open the next call starts open again
Defer(w, call) ==
  [w EXCEPT !.ready = Append(@, call),
            !.feed.opening = IF @ = "run" THEN "wait" ELSE @]

\* a call a handler makes while it runs: the calls a handler makes are run
\* in their order after it, each with the calls it makes itself before the
\* next, which is the order of synchronous calls
NoCall == Call("", 0, 0, << >>, NoProof, << >>, FALSE)

Task(k, cb, err, call, c, i) ==
  [k |-> k, cb |-> cb, err |-> err, call |-> call, c |-> c, i |-> i]

Push(w, tasks) == [w EXCEPT !.stack = tasks \o @]

Invoke(cb, err) == Task("invoke", cb, err, NoCall, 0, 0)

\* the error of a timer that has fired
ETIMEDOUT == <<110>>

\* timeoutCallback(cb, timeout): the timer is set, and cb is called through
\* done from now on
timeoutCallback(w, cb) == [w EXCEPT !.timers = MapPut(@, cb, [failed |-> FALSE, set |-> TRUE])]

\* timeoutCallback / ontimeout: the timer of callback cb fires
ontimeout(w, cb) ==
  Emit([w EXCEPT !.timers[cb] = [failed |-> TRUE, set |-> FALSE]],
       Event("get", cb, TRUE, ETIMEDOUT, << >>, 0, 0))

\* done of timeoutCallback as it would be if it did not look at failed
getCallbackUnchecked(w, cb, err, val) ==
  IF cb \notin DOMAIN w.timers THEN Emit(w, Event("get", cb, err, val, << >>, 0, 0))
  ELSE Emit([w EXCEPT !.timers[cb].set = FALSE], Event("get", cb, err, val, << >>, 0, 0))

\* the callback of a get is called: through done of timeoutCallback when it
\* is wrapped, which drops the call after the timer has fired and clears the
\* timer otherwise
getCallback(w, cb, err, val) ==
  IF cb \notin DOMAIN w.timers THEN Emit(w, Event("get", cb, err, val, << >>, 0, 0))
  ELSE IF w.timers[cb].failed THEN w
  ELSE Emit([w EXCEPT !.timers[cb].set = FALSE], Event("get", cb, err, val, << >>, 0, 0))

\* Feed.prototype.get(index, opts, cb), once the callback has been wrapped
getNow(w, index, wait, cb) ==
  IF index \notin w.feed.bitfield
  THEN IF ~wait THEN getCallback(w, cb, TRUE, << >>)
       ELSE [w EXCEPT !.feed.waiting = Append(@, Waiter(0, index, 0, 0, FALSE, cb))]
  ELSE AddIo(w, IoOp("getData", "get", cb, 0, index, NoNode, << >>, EmptyBits, << >>))

\* Feed.prototype.get(index, {wait, timeout}, cb)
get(w, index, wait, timeout, cb) ==
  IF ~w.feed.opened
  THEN Defer(w, [Call("get", cb, index, << >>, NoProof, << >>, wait) EXCEPT !.timeout = timeout])
  ELSE getNow(IF timeout THEN timeoutCallback(w, cb) ELSE w, index, wait, cb)

\* the callback of _getBuffer, through _wrapCodec unless the codec is binary
getDone(w, o, err) ==
  LET r == getData(w.storage, o.index)
  IN  IF err \/ ~r.ok THEN getCallback(w, o.id, TRUE, << >>)
      ELSE getCallback(w, o.id, FALSE, decode(w.opts.codec, r.data))

\* Feed.prototype._seek, from a root on: onroot and onleftchild
RECURSIVE SeekDown(_, _, _, _)
RECURSIVE SeekLeft(_, _, _, _)
SeekDown(w, top, nearestRoot, offset) ==
  IF isBlock(top) THEN [err |-> FALSE, index |-> top, offset |-> offset]
  ELSE SeekLeft(w, LeftChild(top), nearestRoot, offset)

SeekLeft(w, left, nearestRoot, offset) ==
  IF left \notin w.feed.tree
  THEN IF isBlock(left) THEN [err |-> FALSE, index |-> nearestRoot, offset |-> offset]
       ELSE SeekLeft(w, LeftChild(left), nearestRoot, offset)
  ELSE IF ~HasNode(w.storage, left) THEN [err |-> TRUE, index |-> 0, offset |-> 0]
  ELSE LET node == w.storage.nodes[left]
       IN  IF node.size > offset THEN SeekDown(w, node.index, node.index, offset)
           ELSE SeekDown(w, Sibling(node.index), nearestRoot, offset - node.size)

\* Feed.prototype._seek / loop over the roots
RECURSIVE SeekRoots(_, _, _)
SeekRoots(w, roots, offset) ==
  IF roots = << >> \/ ~HasNode(w.storage, Head(roots)) THEN [err |-> TRUE, index |-> 0, offset |-> 0]
  ELSE LET node == w.storage.nodes[Head(roots)]
       IN  IF node.size > offset THEN SeekDown(w, node.index, node.index, offset)
           ELSE SeekRoots(w, Tail(roots), offset - node.size)

\* Feed.prototype._seek(offset, cb)
_seek(w, offset) ==
  IF offset = 0 THEN [err |-> FALSE, index |-> 0, offset |-> 0]
  ELSE SeekRoots(w, FullRoots(2 * w.feed.length), offset)

\* Feed.prototype.seek(bytes, {start, end, wait}, cb), r being what _seek
\* calls back with
seekFound(w, bytes, start0, end0, wait, cb, r) ==
  LET left  == LeftSpan(r.index) \div 2
      right == RightSpan(r.index) \div 2 + 1
      end1  == IF end0 = 0 THEN 0 - 1 ELSE end0
      start == IF ~r.err /\ left > start0 THEN left ELSE start0
      end   == IF ~r.err /\ (right < end1 \/ end1 = 0 - 1) THEN right ELSE end1
  IN  IF ~r.err /\ isBlock(r.index)
      THEN Emit(w, Event("seek", cb, FALSE, <<r.index \div 2, r.offset>>, << >>, 0, 0))
      ELSE IF ~wait \/ (end > 0 - 1 /\ end <= start)
      THEN Emit(w, Event("seek", cb, TRUE, << >>, << >>, 0, 0))
      ELSE [w EXCEPT !.feed.waiting = Append(@, Waiter(bytes, 0 - 1, start, end, TRUE, cb))]

seek(w, bytes, start0, end0, wait, cb) ==
  IF ~w.feed.opened THEN Defer(w, Call("seek", cb, bytes, << >>, NoProof, << >>, wait))
  ELSE seekFound(w, bytes, start0, end0, wait, cb, _seek(w, bytes))

\* Feed.prototype._pollWaiting: the waiter at position i is removed and its
\* call is made again
PollAgain(w, next) ==
  IF next.bytes # 0 THEN seek(w, next.bytes, next.start, next.end, TRUE, next.callback)
  ELSE get(w, next.index, TRUE, FALSE, next.callback)

\* Feed.prototype._pollWaiting, from position i of the first len waiters on
RECURSIVE PollLoop(_, _, _)
PollLoop(w, i, len) ==
  IF i > len THEN w
  ELSE IF w.feed.waiting[i].bytes = 0 /\ w.feed.waiting[i].index \notin w.feed.bitfield
  THEN PollLoop(w, i + 1, len)
  ELSE PollLoop(PollAgain([w EXCEPT !.feed.waiting = RemoveSwap(@, i)], w.feed.waiting[i]),
                i, len - 1)

_pollWaiting(w) == PollLoop(w, 1, Len(w.feed.waiting))

\* Feed.prototype._syncBitfield: one page holds every bit of the model
_syncBitfield(w) ==
  IF ~w.feed.dirty
  THEN Push(_pollWaiting(w), <<Task("lowDone", CbNoop, FALSE, NoCall, 0, 0)>>)
  ELSE _pollWaiting(AddIo([w EXCEPT !.feed.dirty = FALSE],
                          IoOp("putBitfield", "sync", 0, 0, 0, NoNode, << >>,
                               [data |-> w.feed.bitfield, tree |-> w.feed.tree], << >>)))

\* last-one-wins: this._sync(null, cb)
_sync(w, cb) ==
  IF w.low.callback # << >> THEN [w EXCEPT !.low.pending = Append(@, cb)]
  ELSE _syncBitfield([w EXCEPT !.low.callback = <<cb>>])

\* last-one-wins: the callback its worker is given.  The calls that came
\* while the worker ran are served by one more run of it, which is started
\* before the callbacks of this run are invoked
lowDone(w, err) ==
  Push([w EXCEPT !.low = [callback |-> << >>, callbacks |-> w.low.pending, pending |-> << >>]],
       (IF w.low.pending # << >> THEN <<Task("_sync", CbNoop, FALSE, NoCall, 0, 0)>> ELSE << >>)
       \o [j \in 1..Len(w.low.callbacks) |-> Invoke(w.low.callbacks[j], err)]
       \o <<Invoke(w.low.callback[1], err)>>)

RECURSIVE EmitAll(_, _, _)
EmitAll(w, ids, err) ==
  IF ids = << >> THEN w
  ELSE EmitAll(Emit(w, Event("append", Head(ids), err, << >>, << >>, 0, 0)), Tail(ids), err)

\* atomic-batcher: the callback its worker is given
batcherDone(w, err) ==
  LET more == w.batch.pendingBatch # << >> \/ w.batch.pendingCallbacks # << >>
  IN  Push([EmitAll(w, w.batch.callbacks, err) EXCEPT
              !.batch = [running |-> more, callbacks |-> w.batch.pendingCallbacks,
                         pendingBatch |-> << >>, pendingCallbacks |-> << >>]],
           IF more
           THEN <<Task("_append", CbNoop, FALSE,
                       Call("_append", 0, 0, << >>, NoProof, w.batch.pendingBatch, TRUE), 0, 0)>>
           ELSE << >>)

\* a callback held by the feed, called with err
InvokeCb(w, cb, err) ==
  CASE cb.k = "append" ->
         batcherDone(Emit(w, Event("_append", 0, err, << >>, cb.batch, cb.start, cb.startBytes)), err)
    [] cb.k = "put"    -> Emit(w, Event("put", cb.id, err, << >>, << >>, 0, 0))
    [] OTHER           -> w

\* atomic-batcher: this._batch(values, cb)
batcher(w, values, cb) ==
  IF w.batch.running
  THEN [w EXCEPT !.batch.pendingBatch = @ \o values, !.batch.pendingCallbacks = Append(@, cb)]
  ELSE Push([w EXCEPT !.batch.callbacks = <<cb>>, !.batch.running = TRUE],
            <<Task("_append", CbNoop, FALSE,
                   Call("_append", 0, 0, << >>, NoProof, values, TRUE), 0, 0)>>)

RECURSIVE LeafIndexes(_, _)
LeafIndexes(start, n) == IF n = 0 THEN << >> ELSE <<2 * start>> \o LeafIndexes(start + 1, n - 1)

RECURSIVE AddNodeWrites(_, _, _, _, _)
AddNodeWrites(w, k, id, nodes, n) ==
  IF nodes = << >> THEN w
  ELSE AddNodeWrites(
         AddIo(w, IoOp("putNode", k, id, n, Head(nodes).index, Head(nodes), << >>, EmptyBits, << >>)),
         k, id, Tail(nodes), n + 1)

\* the values the feed has reported as appended, by their index
RECURSIVE Logged(_, _, _)
Logged(log, start, b) ==
  IF b = << >> THEN log ELSE Logged(MapPut(log, start, Head(b)), start + 1, Tail(b))

\* done as it would be if byteLength were set to the size of the batch and
\* not grown by it
appendFlipAssigned(w, cl) ==
  [w EXCEPT !.feed.byteLength = cl.offset,
            !.feed.bitfield = @ \cup {w.feed.length + k : k \in 0..(Len(cl.batch) - 1)},
            !.feed.tree = TreeSetAll(@, LeafIndexes(w.feed.length, Len(cl.batch))),
            !.feed.length = @ + Len(cl.batch),
            !.feed.dirty = TRUE,
            !.ghost.log = Logged(@, w.feed.length, cl.batch)]

\* Feed.prototype._append / done, once pending has reached 0 without an
\* error: the bits of the batch are set and the lengths grow
appendFlip(w, cl) ==
  [w EXCEPT !.feed.byteLength = @ + cl.offset,
            !.feed.bitfield = @ \cup {w.feed.length + k : k \in 0..(Len(cl.batch) - 1)},
            !.feed.tree = TreeSetAll(@, LeafIndexes(w.feed.length, Len(cl.batch))),
            !.feed.length = @ + Len(cl.batch),
            !.feed.dirty = \/ @
                           \/ \E k \in 0..(Len(cl.batch) - 1) : w.feed.length + k \notin w.feed.bitfield
                           \/ TreeSetAll(w.feed.tree, LeafIndexes(w.feed.length, Len(cl.batch)))
                                # w.feed.tree,
            !.ghost.log = Logged(@, w.feed.length, cl.batch)]

\* Feed.prototype._append / done, after error and pending have been set
appendCounted(w, cl) ==
  IF cl.pending # 0 THEN w
  ELSE IF cl.error
  THEN Push(w, <<Invoke(Cb("append", 0, cl.batch, cl.start, cl.startBytes), TRUE)>>)
  ELSE _sync(appendFlip(w, cl), Cb("append", 0, cl.batch, cl.start, cl.startBytes))

\* Feed.prototype._append / done: one write of the batch of _append call c
\* has completed
appendDone(w, c, err) ==
  appendCounted([w EXCEPT !.appends[c].error = @ \/ err, !.appends[c].pending = @ - 1],
                [w.appends[c] EXCEPT !.error = @ \/ err, !.pending = @ - 1])

\* Feed.prototype._append, the loop over the batch at value i, up to the
\* write of the data; r is what the generator gives for the value
appendData(w, c, i, data, r) ==
  IF w.opts.indexing
  THEN Push([w EXCEPT !.feed.merkle = r.merkle, !.appends[c].nodes = r.nodes,
                      !.appends[c].size = Len(data)],
            <<Task("appendDone", CbNoop, FALSE, NoCall, c, i),
              Task("appendRest", CbNoop, FALSE, NoCall, c, i)>>)
  ELSE Push(AddIo([w EXCEPT !.feed.merkle = r.merkle, !.appends[c].nodes = r.nodes,
                            !.appends[c].size = Len(data)],
                  IoOp("write", "append", c, i, w.feed.byteLength + w.appends[c].offset,
                       NoNode, data, EmptyBits, << >>)),
            <<Task("appendRest", CbNoop, FALSE, NoCall, c, i)>>)

appendStep(w, c, i) ==
  appendData(w, c, i, encode(w.opts.codec, w.appends[c].batch[i]),
             MerkleNext(w.feed.merkle, encode(w.opts.codec, w.appends[c].batch[i])))

\* the signature of the roots after value i, on a live feed
appendSign(w, c, i) ==
  IF ~w.feed.live THEN w
  ELSE AddIo(w, IoOp("putSignature", "append", c, i, w.feed.length + i - 1, NoNode,
                     sign(hash_tree(w.feed.merkle.roots), w.feed.secretKey), EmptyBits, << >>))

\* Feed.prototype._append, the loop over the batch at value i, after the
\* write of the data
appendRest(w, c, i) ==
  Push(AddNodeWrites([appendSign(w, c, i) EXCEPT
                        !.appends[c].pending = @ + Len(w.appends[c].nodes),
                        !.appends[c].offset = @ + w.appends[c].size],
                     "append", c, w.appends[c].nodes, 10 * i),
       IF i < Len(w.appends[c].batch)
       THEN <<Task("appendStep", CbNoop, FALSE, NoCall, c, i + 1)>>
       ELSE << >>)

\* Feed.prototype._append(batch, cb), cb being the callback of the batcher
_append(w, b) ==
  IF ~w.feed.opened THEN Defer(w, Call("_append", 0, 0, << >>, NoProof, b, TRUE))
  ELSE IF ~w.feed.writable \/ b = << >>
  THEN Push(w, <<Invoke(Cb("append", 0, b, w.feed.length, w.feed.byteLength), ~w.feed.writable)>>)
  ELSE Push([w EXCEPT !.appends = MapPut(@, NewId(@),
                         [batch |-> b, pending |-> IF w.feed.live THEN 2 * Len(b) ELSE Len(b),
                          offset |-> 0, error |-> FALSE, start |-> w.feed.length,
                          startBytes |-> w.feed.byteLength, nodes |-> << >>, size |-> 0])],
            <<Task("appendStep", CbNoop, FALSE, NoCall, NewId(w.appends), 1)>>)

\* Feed.prototype.append(batch, cb)
append(w, b, cb) == batcher(w, b, cb)

\* Feed.prototype.flush(cb)
flush(w, cb) == batcher(w, << >>, cb)

(***************************************************************************)
(* put: verifying a block against its proof and writing it.                *)
(***************************************************************************)
verifyNode(trusted, node) ==
  trusted # << >> /\ trusted[1].index = node.index /\ trusted[1].hash = node.hash

RECURSIVE NodeIndexes(_)
NodeIndexes(nodes) == IF nodes = << >> THEN << >> ELSE <<Head(nodes).index>> \o NodeIndexes(Tail(nodes))

\* _writeDone as it would be if it flipped the data bit and did not set it
_writeDoneFlipped(w, pt) ==
  _sync([w EXCEPT !.feed.tree = TreeSet(TreeSetAll(@, NodeIndexes(pt.nodes)), 2 * pt.index),
                  !.feed.bitfield = IF pt.index \in @ THEN @ \ {pt.index} ELSE @ \cup {pt.index},
                  !.feed.dirty = TRUE],
        Cb("put", pt.cb, << >>, 0, 0))

\* Feed.prototype._writeDone, pt being the _write call
_writeDone(w, pt) ==
  _sync([w EXCEPT !.feed.tree = TreeSet(TreeSetAll(@, NodeIndexes(pt.nodes)), 2 * pt.index),
                  !.feed.bitfield = @ \cup {pt.index},
                  !.feed.dirty = \/ @
                                 \/ pt.index \notin w.feed.bitfield
                                 \/ TreeSet(TreeSetAll(w.feed.tree, NodeIndexes(pt.nodes)),
                                            2 * pt.index) # w.feed.tree],
        Cb("put", pt.cb, << >>, 0, 0))

PutFail(w, cb) == Emit(w, Event("put", cb, TRUE, << >>, << >>, 0, 0))

\* Feed.prototype._write / ondone, after error and pending have been set
writeCounted(w, pt) ==
  IF pt.pending # 0 THEN w
  ELSE IF pt.error THEN PutFail(w, pt.cb)
  ELSE _writeDone(w, pt)

\* Feed.prototype._write / ondone: one write of _write call p has completed
writeOndone(w, p, err) ==
  writeCounted([w EXCEPT !.puts[p].error = @ \/ err, !.puts[p].pending = @ - 1],
               [w.puts[p] EXCEPT !.error = @ \/ err, !.pending = @ - 1])

\* Feed.prototype._write(index, data, nodes, sig, from, cb); sig is none or
\* one record of the slot and the signature
_write(w, index, data, nodes, sig, cb) ==
  LET p  == NewId(w.puts)
      pt == [index |-> index, nodes |-> nodes, cb |-> cb, error |-> FALSE,
             pending |-> Len(nodes) + 1 + Len(sig)]
      w1 == AddNodeWrites([w EXCEPT !.puts = MapPut(@, p, pt)], "put", p, nodes, 1)
      w2 == AddIo(w1, IoOp("putData", "put", p, 0, index, NoNode, data, EmptyBits, nodes))
  IN  IF sig = << >> THEN w2
      ELSE AddIo(w2, IoOp("putSignature", "put", p, 0, sig[1].index, NoNode, sig[1].signature,
                          EmptyBits, << >>))

\* Feed.prototype._verifyRootsAndWrite: the loop over the indexes of the
\* roots, from position i on
RECURSIVE RootsLoop(_, _, _, _, _, _, _)
RootsLoop(w, indexes, i, top, remote, nodes, roots) ==
  IF i > Len(indexes) THEN [ok |-> TRUE, nodes |-> nodes, roots |-> roots]
  ELSE IF indexes[i] = top.index
  THEN RootsLoop(w, indexes, i + 1, top, remote, nodes \o <<top>>, roots \o <<top>>)
  ELSE IF remote # << >> /\ indexes[i] = remote[1].index
  THEN RootsLoop(w, indexes, i + 1, top, Tail(remote), nodes \o <<remote[1]>>, roots \o <<remote[1]>>)
  ELSE IF indexes[i] \in w.feed.tree /\ HasNode(w.storage, indexes[i])
  THEN RootsLoop(w, indexes, i + 1, top, remote, nodes, roots \o <<w.storage.nodes[indexes[i]]>>)
  ELSE [ok |-> FALSE, nodes |-> nodes, roots |-> roots]

\* verify as it would be if the checksum of the roots were compared with
\* nothing
_verifyRootsAndWriteUnchecked(w, index, data, top, signature, remote, nodes, cb) ==
  LET lastNode   == IF remote # << >> THEN remote[Len(remote)].index ELSE top.index
      verifiedBy == Max(RightSpan(top.index), RightSpan(lastNode)) + 2
      r          == RootsLoop(w, FullRoots(verifiedBy), 1, top, remote, nodes, << >>)
      sig        == IF signature # NoSig
                    THEN <<[index |-> verifiedBy \div 2 - 1, signature |-> signature]>>
                    ELSE << >>
      length     == verifiedBy \div 2
      w1         == [w EXCEPT !.feed.live = sig # << >>,
                              !.feed.length = IF length > @ THEN length ELSE @,
                              !.feed.byteLength = IF length > w.feed.length THEN SumSizes(r.roots) ELSE @]
  IN  IF ~r.ok THEN PutFail(w, cb)
      ELSE _write(w1, index, data, r.nodes, sig, cb)

\* Feed.prototype._verifyRootsAndWrite / verify
_verifyRootsAndWrite(w, index, data, top, signature, remote, nodes, cb) ==
  LET lastNode   == IF remote # << >> THEN remote[Len(remote)].index ELSE top.index
      verifiedBy == Max(RightSpan(top.index), RightSpan(lastNode)) + 2
      r          == RootsLoop(w, FullRoots(verifiedBy), 1, top, remote, nodes, << >>)
      checksum   == hash_tree(r.roots)
      fail       == PutFail(w, cb)
      sig        == IF signature # NoSig
                    THEN <<[index |-> verifiedBy \div 2 - 1, signature |-> signature]>>
                    ELSE << >>
      length     == verifiedBy \div 2
      w1         == [w EXCEPT !.feed.live = sig # << >>,
                              !.feed.length = IF length > @ THEN length ELSE @,
                              !.feed.byteLength = IF length > w.feed.length THEN SumSizes(r.roots) ELSE @]
  IN  IF ~r.ok THEN fail
      ELSE IF w.feed.length # 0 /\ w.feed.live /\ signature = NoSig THEN fail
      ELSE IF signature # NoSig /\ ~verify(checksum, signature, w.feed.key) THEN fail
      ELSE IF signature = NoSig /\ checksum # w.feed.key THEN fail
      ELSE _write(w1, index, data, r.nodes, sig, cb)

\* Feed.prototype._verifyAndWrite: hashing upwards with the siblings
RECURSIVE VerifyLoop(_, _, _, _, _)
VerifyLoop(trusted, top, remote, local, visited) ==
  LET next == Sibling(top.index)
      fromRemote == remote # << >> /\ remote[1].index = next
      fromLocal  == ~fromRemote /\ local # << >> /\ local[1].index = next
      node    == IF fromRemote THEN remote[1] ELSE local[1]
      seen    == (IF fromRemote THEN visited \o <<node>> ELSE visited) \o <<top>>
      up      == Node(Parent(top.index), hash_parent(top, node), top.size + node.size)
  IN  IF ~fromRemote /\ ~fromLocal
      THEN [k |-> "roots", top |-> top, remote |-> remote, visited |-> visited]
      ELSE IF verifyNode(trusted, up)
      THEN [k |-> "write", top |-> up, remote |-> remote, visited |-> seen]
      ELSE VerifyLoop(trusted, up,
                      IF fromRemote THEN Tail(remote) ELSE remote,
                      IF fromLocal THEN Tail(local) ELSE local, seen)

_verifyAndWrite(w, index, data, prf, localNodes, trustedNode, cb) ==
  LET top == Node(2 * index, hash_data(data), Len(data))
      v   == VerifyLoop(trustedNode, top, prf.nodes, localNodes, << >>)
  IN  IF verifyNode(trustedNode, top) THEN _write(w, index, data, << >>, << >>, cb)
      ELSE IF v.k = "write" THEN _write(w, index, data, v.visited, << >>, cb)
      ELSE _verifyRootsAndWrite(w, index, data, v.top, prf.signature, v.remote, v.visited, cb)

\* Feed.prototype._putBuffer: the walk from the leaf up to a node the feed
\* holds; i is the number of proof nodes passed
RECURSIVE PutWalk(_, _, _, _, _)
PutWalk(tree, nodes, next, i, missing) ==
  IF next \in tree THEN [trusted |-> next, missing |-> missing]
  ELSE IF i < Len(nodes) /\ nodes[i + 1].index = Sibling(next)
  THEN PutWalk(tree, nodes, Parent(next), i + 1, missing)
  ELSE IF Sibling(next) \notin tree
  THEN [trusted |-> IF Parent(next) \in tree THEN Parent(next) ELSE 0 - 1, missing |-> missing]
  ELSE PutWalk(tree, nodes, Parent(next), i, missing \o <<Sibling(next)>>)

\* the nodes of the walk are read before any other handler runs
_putBuffer(w, index, data, prf, cb) ==
  LET walk         == PutWalk(w.feed.tree, prf.nodes, 2 * index, 0, << >>)
      missingNodes == LookupNodes(w.storage, << >>, walk.missing)
      trustedNode  == IF walk.trusted > 0 - 1 THEN LookupNode(w.storage, << >>, walk.trusted) ELSE << >>
  IN  IF Len(missingNodes) # Len(walk.missing) \/ (walk.trusted > 0 - 1 /\ trustedNode = << >>)
      THEN PutFail(w, cb)
      ELSE _verifyAndWrite(w, index, data, prf, missingNodes, trustedNode, cb)

\* Feed.prototype.put(index, data, proof, cb)
put(w, index, data, prf, cb) ==
  IF ~w.feed.opened THEN Defer(w, Call("put", cb, index, data, prf, << >>, TRUE))
  ELSE _putBuffer(w, index, encode(w.opts.codec, data), prf, cb)

(***************************************************************************)
(* finalize, close and open.                                               *)
(***************************************************************************)
\* Feed.prototype.finalize(cb)
finalize(w, cb) ==
  LET key == IF w.feed.key = NoKey THEN hash_tree(w.feed.merkle.roots) ELSE w.feed.key
  IN  AddIo([w EXCEPT !.feed.key = key],
            IoOp("keyWrite", "finalize", cb, 0, 0, NoNode, key, EmptyBits, << >>))

\* nothing of an append or a put is under way: every write has completed
\* and every bit that was set has been flushed
Quiet(w) ==
  w.io = {} /\ ~w.feed.dirty /\ ~w.batch.running /\ w.low.callback = << >> /\ w.feed.opened

\* an append is under way and none of its bits has been set: whatever was
\* set before has been flushed
Interrupted(w) ==
  /\ \E o \in w.io : o.k = "append"
  /\ \A o \in w.io : o.k = "append" /\ o.id \in DOMAIN w.appends
                        /\ w.appends[o.id].start = w.feed.length
  /\ ~w.feed.dirty /\ w.low.callback = << >> /\ w.feed.opened

\* what the feed was when it was closed or when it crashed
Mark(w, k) ==
  [w EXCEPT !.ghost.last = k,
            !.ghost.quiet = IF k = "close" THEN Quiet(w) ELSE Interrupted(w),
            !.ghost.length = w.feed.length,
            !.ghost.byteLength = w.feed.byteLength,
            !.ghost.bitfield = w.feed.bitfield]

\* Feed.prototype.close(cb), once open has finished
closeNow(w, cb) ==
  Emit([Mark(w, "close") EXCEPT !.feed.writable = FALSE, !.feed.readable = FALSE,
                                !.storage.closed = TRUE],
       Event("close", cb, w.storage.closed, << >>, << >>, 0, 0))

close(w, cb) ==
  IF w.feed.opening = "finished" THEN closeNow(w, cb)
  ELSE Defer(w, Call("close", cb, 0, << >>, NoProof, << >>, TRUE))

trimLength(bits) == IF bits = {} THEN 0 ELSE SetMax(bits) + 1

RECURSIVE LastLeaf(_, _)
LastLeaf(bits, len) == IF len > 0 /\ (len - 1) \notin bits THEN LastLeaf(bits, len - 2) ELSE len

\* Feed.prototype._open / onopen: the length the tree bitfield stands for
OpenLength(bits) ==
  LET len  == trimLength(bits)
      last == IF len # 0 /\ len % 2 = 0 THEN LastLeaf(bits, len - 1) ELSE len
  IN  IF last > 0 THEN (last + 1) \div 2 ELSE 0

\* a key pair made for every feed that has no key
keyPairAlways(key, live) == key = NoKey

\* open makes a key pair for a live feed that has no key
keyPair(key, live) == key = NoKey /\ live

\* Feed.prototype._open, from the opening of the storage to its callback, as
\* the world afterwards and the error it calls back with
_open(w) ==
  LET st        == w.storage
      overwrite == w.opts.overwrite \/ (st.key = NoKey /\ st.hasBitfield)
      bitfield  == IF overwrite THEN EmptyBits ELSE st.bitfield
      stateKey  == IF overwrite THEN NoKey ELSE st.key
      stateSec  == IF overwrite THEN NoKey ELSE st.secretKey
      length    == OpenLength(bitfield.tree)
      w1        == [w EXCEPT !.feed.bitfield = bitfield.data, !.feed.tree = bitfield.tree,
                             !.feed.length = length]
      key0      == IF stateKey # NoKey THEN stateKey ELSE w.feed.key
      sec0      == IF stateSec # NoKey THEN stateSec ELSE w.feed.secretKey
      live      == IF length # 0 THEN HasSignature(st, length - 1) ELSE w.feed.live
      create    == keyPair(key0, live)
      key       == IF create THEN PublicKey ELSE key0
      secretKey == IF create THEN SecretKey ELSE sec0
      w2        == [w1 EXCEPT !.feed.key = key, !.feed.secretKey = secretKey, !.feed.live = live,
                              !.feed.writable = secretKey # NoKey \/ key = NoKey,
                              !.storage.key = IF key # NoKey THEN key ELSE @,
                              !.storage.secretKey = IF secretKey # NoKey THEN secretKey ELSE @,
                              !.storage.bitfield = IF overwrite THEN EmptyBits ELSE @]
      indexes   == FullRoots(2 * length)
      roots     == LookupNodes(st, << >>, indexes)
  IN  IF stateKey # NoKey /\ w.feed.key # NoKey /\ stateKey # w.feed.key
      THEN [w |-> w1, err |-> TRUE]
      ELSE IF key0 = NoKey /\ ~w.opts.createIfMissing
      THEN [w |-> [w1 EXCEPT !.feed.live = live], err |-> TRUE]
      ELSE IF Len(roots) # Len(indexes) THEN [w |-> w2, err |-> TRUE]
      ELSE [w |-> Emit([w2 EXCEPT !.feed.merkle = merkle(roots),
                                  !.feed.byteLength = SumSizes(roots),
                                  !.feed.opened = TRUE],
                       Event("ready", 0, FALSE, << >>, << >>, 0, 0)),
            err |-> FALSE]

\* a call that waited for open, run with the error open called back with
RunCall(w, call, err) ==
  CASE call.k = "_append" ->
         IF err
         THEN Push(w, <<Invoke(Cb("append", 0, call.batch, w.feed.length, w.feed.byteLength), TRUE)>>)
         ELSE _append(w, call.batch)
    [] call.k = "put" ->
         IF err THEN PutFail(w, call.id)
         ELSE put(w, call.index, call.data, call.proof, call.id)
    [] call.k = "get" ->
         IF err THEN Emit(w, Event("get", call.id, TRUE, << >>, << >>, 0, 0))
         ELSE get(w, call.index, call.wait, call.timeout, call.id)
    [] call.k = "seek" ->
         IF err THEN Emit(w, Event("seek", call.id, TRUE, << >>, << >>, 0, 0))
         ELSE seek(w, call.index, 0, 0, call.wait, call.id)
    [] call.k = "close" -> closeNow(w, call.id)
    [] OTHER -> IF err THEN Emit(w, Event("error", 0, TRUE, << >>, << >>, 0, 0)) ELSE w

\* thunky: open has called back, r being the world afterwards and the error;
\* the calls that waited run in their order
opened(r, calls) ==
  Push([r.w EXCEPT !.ready = << >>, !.feed.opening = IF r.err THEN "run" ELSE "finished"],
       [j \in 1..Len(calls) |-> Task("call", CbNoop, r.err, calls[j], 0, 0)])

openDone(w) == opened(_open(w), w.ready)

(***************************************************************************)
(* The completion of a storage operation.                                  *)
(***************************************************************************)
\* the storage after operation o, and whether o failed
IoEffect(st, o, ok) ==
  LET at == dataOffset(st, o.cached, o.index)
  IN  IF ~ok \/ st.closed THEN [st |-> st, err |-> TRUE]
      ELSE CASE o.op = "putNode" -> [st |-> [st EXCEPT !.nodes = MapPut(@, o.index, o.node)], err |-> FALSE]
             [] o.op = "write" -> [st |-> [st EXCEPT !.data = DataWrite(@, o.index, o.bytes)], err |-> FALSE]
             [] o.op = "putSignature" ->
                  [st |-> [st EXCEPT !.signatures = MapPut(@, o.index, o.bytes)], err |-> FALSE]
             [] o.op = "putData" ->
                  IF o.bytes = << >> THEN [st |-> st, err |-> FALSE]
                  ELSE IF ~at.ok \/ at.size # Len(o.bytes) THEN [st |-> st, err |-> TRUE]
                  ELSE [st |-> [st EXCEPT !.data = DataWrite(@, at.offset, o.bytes)], err |-> FALSE]
             [] o.op = "putBitfield" ->
                  [st |-> [st EXCEPT !.bitfield = o.bits, !.hasBitfield = TRUE], err |-> FALSE]
             [] o.op = "keyWrite" -> [st |-> [st EXCEPT !.key = o.bytes], err |-> FALSE]
             [] OTHER -> [st |-> st, err |-> FALSE]

\* operation o has completed with e, and its callback runs
ioCallback(w, o, e) ==
  CASE o.k = "append"   -> appendDone(w, o.id, e.err)
    [] o.k = "put"      -> writeOndone(w, o.id, e.err)
    [] o.k = "sync"     -> lowDone(w, e.err)
    [] o.k = "get"      -> getDone(w, o, e.err)
    [] o.k = "finalize" ->
         Emit([w EXCEPT !.ghost.finalized = @ \/ ~e.err],
              Event("finalize", o.id, e.err, << >>, << >>, 0, 0))
    [] OTHER            -> w

ioStored(w, o, ok, e) ==
  ioCallback([w EXCEPT !.io = @ \ {o}, !.storage = e.st,
                       !.ghost.fails = IF ok THEN @ ELSE @ + 1,
                       !.ghost.made = IF ok THEN @ ELSE @ + 1],
             o, e)

\* operation o completes, or fails
ioDone(w, o, ok) == ioStored(w, o, ok, IoEffect(w.storage, o, ok))

(***************************************************************************)
(* A handler run to its end: the calls it makes, the calls they make.      *)
(***************************************************************************)
Step(w, t) ==
  CASE t.k = "call"       -> RunCall(w, t.call, t.err)
    [] t.k = "_append"    -> _append(w, t.call.batch)
    [] t.k = "appendStep" -> appendStep(w, t.c, t.i)
    [] t.k = "appendRest" -> appendRest(w, t.c, t.i)
    [] t.k = "appendDone" -> appendDone(w, t.c, t.err)
    [] t.k = "_sync"      -> _sync(w, t.cb)
    [] t.k = "lowDone"    -> lowDone(w, t.err)
    [] t.k = "invoke"     -> InvokeCb(w, t.cb, t.err)
    [] OTHER              -> w

RECURSIVE Run(_)
Run(w) ==
  IF w.stack = << >> THEN w
  ELSE Run(Step([w EXCEPT !.stack = Tail(@)], Head(w.stack)))

(***************************************************************************)
(* Selections.                                                             *)
(***************************************************************************)
\* Feed.prototype.download({start, end}); sid tells the objects apart
download(w, start, end, sid) ==
  LET sel == [_index |-> Len(w.feed.selections), hash |-> FALSE, start |-> start,
              end |-> IF end = 0 THEN 0 - 1 ELSE end, linear |-> FALSE, sid |-> sid]
  IN  [w EXCEPT !.feed.selections = Append(@, sel)]

RECURSIVE IndexOfRange(_, _, _, _)
IndexOfRange(sels, start, end, i) ==
  IF i > Len(sels) THEN 0
  ELSE IF sels[i].start = start /\ sels[i].end = end /\ ~sels[i].hash /\ ~sels[i].linear THEN i
  ELSE IndexOfRange(sels, start, end, i + 1)

Splice(s, i) == SubSeq(s, 1, i - 1) \o SubSeq(s, i + 1, Len(s))

\* Feed.prototype.undownload({start, end}): the range given by its values
undownload(w, start, end) ==
  LET i == IndexOfRange(w.feed.selections, start, IF end = 0 THEN 0 - 1 ELSE end, 1)
  IN  IF i = 0 THEN w ELSE [w EXCEPT !.feed.selections = Splice(@, i)]

\* unordered-set remove(list, item), item being the object at position i
SetRemove(list, i) ==
  LET item == list[i]
      last == list[Len(list)]
      rest == SubSeq(list, 1, Len(list) - 1)
  IN  IF item._index >= Len(list) \/ list[item._index + 1].sid # item.sid THEN list
      ELSE IF last.sid = item.sid THEN rest
      ELSE [rest EXCEPT ![item._index + 1] = [last EXCEPT !._index = item._index]]

\* Feed.prototype.undownload(sel): the range given as the object download
\* returned, which is at position i of the selections
undownloadSel(w, i) ==
  Emit([w EXCEPT !.feed.selections = SetRemove(@, i)],
       Event("download", w.feed.selections[i].sid, TRUE, << >>, << >>, 0, 0))

(***************************************************************************)
(* The calls of a caller and what is remembered of them.                   *)
(***************************************************************************)
\* the feed and its storage as a caller can observe them
Snap(w) ==
  [length |-> w.feed.length, byteLength |-> w.feed.byteLength, live |-> w.feed.live,
   bitfield |-> w.feed.bitfield, tree |-> w.feed.tree, opened |-> w.feed.opened,
   key |-> w.feed.key, nodes |-> w.storage.nodes, data |-> w.storage.data,
   signatures |-> w.storage.signatures, fails |-> w.ghost.fails,
   finalized |-> w.ghost.finalized, closed |-> w.storage.closed]

\* a call whose callback is outstanding: its arguments and the state it was
\* made in
NoSnap ==
  [length |-> 0, byteLength |-> 0, live |-> FALSE, bitfield |-> {}, tree |-> {},
   opened |-> FALSE, key |-> NoKey, nodes |-> << >>, data |-> << >>, signatures |-> << >>,
   fails |-> 0, finalized |-> FALSE, closed |-> FALSE]

\* what a check needs of the state a call of kind k was made in
Pre(w, k, index) ==
  CASE k \in {"put", "finalize"} -> Snap(w)
    [] k = "get" -> [NoSnap EXCEPT !.opened = w.feed.opened,
                                   !.bitfield = w.feed.bitfield \cap {index},
                                   !.fails = w.ghost.fails, !.closed = w.storage.closed]
    [] k = "append" -> [NoSnap EXCEPT !.opened = w.feed.opened,
                                      !.finalized = w.ghost.finalized,
                                      !.closed = w.storage.closed]
    [] OTHER -> NoSnap

Made(w, k, index, data, wait, how) ==
  [k |-> k, index |-> index, data |-> data, wait |-> wait, how |-> how, mixed |-> FALSE,
   seq |-> w.ghost.made, pre |-> Pre(w, k, index)]

MapRestrict(m, ids) == [x \in (DOMAIN m) \cap ids |-> m[x]]

\* the world a step starts from: the callbacks of the step before are
\* forgotten
Start == [World EXCEPT !.out = << >>]

Outstanding(w, kinds) == {id \in DOMAIN w.ghost.calls : w.ghost.calls[id].k \in kinds}

\* a call is made: it is remembered under the identity of its callback; a put
\* made while another put is outstanding is mixed with it
Remember(w, id, call) ==
  [w EXCEPT !.ghost.calls =
              MapPut([x \in DOMAIN @ |->
                        IF call.k = "put" /\ @[x].k = "put" THEN [@[x] EXCEPT !.mixed = TRUE]
                        ELSE @[x]],
                     id,
                     [call EXCEPT !.mixed = call.k = "put" /\ Outstanding(w, {"put"}) # {}]),
            !.ghost.made = @ + 1]

\* the block a get of index is to call back with: the remote writer's, or
\* the value the feed reported as appended at index
Expected(w, index) ==
  IF w.opts.role = "reader" THEN RemoteBlock(index)
  ELSE IF index \in DOMAIN w.ghost.log THEN w.ghost.log[index] ELSE << >>

\* what is observed when the callback e of call c is invoked in world w:
\*   how        what was changed in the proof of a put
\*   had, has   the data bit of the index was set when the call was made, is
\*              set now
\*   stored     the storage holds the block of the put at its index
\*   same       length, byteLength, live and the bits are what they were when
\*              the call was made
\*   kept       the nodes, data and signatures stored are what they were
\*   faulted    a storage operation has failed, or the storage was closed,
\*              since the call was made
\*   right      the value called back with is the block of the index
\*   early      the call was made before open had called back
\*   finalized  the call was made after finalize had completed
\*   twice      the callback is invoked more than once in this step
\*   mixed      another put was outstanding while this put was
\*   seq        the number of calls made before the call
\*   data       the block or the batch of the call
Obs(w, c, e) ==
  [k |-> c.k, how |-> c.how, wait |-> c.wait,
   had |-> c.index \in c.pre.bitfield,
   has |-> c.index \in w.feed.bitfield,
   stored |-> /\ c.k = "put" /\ getData(w.storage, c.index).ok
              /\ getData(w.storage, c.index).data = c.data,
   same |-> /\ w.feed.length = c.pre.length /\ w.feed.byteLength = c.pre.byteLength
            /\ w.feed.live = c.pre.live /\ w.feed.bitfield = c.pre.bitfield
            /\ w.feed.tree = c.pre.tree,
   kept |-> /\ w.storage.nodes = c.pre.nodes /\ w.storage.data = c.pre.data
            /\ w.storage.signatures = c.pre.signatures,
   faulted |-> w.ghost.fails # c.pre.fails \/ w.storage.closed \/ c.pre.closed,
   right |-> c.k = "get" /\ e.val = Expected(w, c.index),
   early |-> ~c.pre.opened,
   finalized |-> c.pre.finalized,
   twice |-> Cardinality({j \in 1..Len(w.out) : w.out[j].id = e.id /\ w.out[j].k = e.k}) > 1,
   mixed |-> c.mixed,
   seq |-> c.seq,
   data |-> c.data]

\* the callbacks of a caller among the callbacks invoked
Answers == {"append", "put", "get", "seek", "finalize", "close"}

Observed(w) ==
  [j \in 1..Len(w.out) |->
     IF w.out[j].k \in Answers /\ w.out[j].id \in DOMAIN w.ghost.calls
     THEN [w.out[j] EXCEPT !.obs = Obs(w, w.ghost.calls[w.out[j].id], w.out[j])]
     ELSE w.out[j]]

Answered(w) == {w.out[j].id : j \in {x \in 1..Len(w.out) : w.out[x].k \in Answers}}

\* the callbacks of get that the feed or a timer is to call
Held(w) ==
  {id \in DOMAIN w.timers : w.timers[id].set}
    \cup {w.feed.waiting[k].callback : k \in {x \in 1..Len(w.feed.waiting) : w.feed.waiting[x].bytes = 0}}
    \cup {o.id : o \in {x \in w.io : x.k = "get"}}

\* the step is taken: the calls answered are forgotten, and so are the
\* closures of _append, _write and timeoutCallback that nothing in flight
\* refers to
Committed(w) ==
  /\ feed' = w.feed
  /\ storage' = w.storage
  /\ batch' = w.batch
  /\ appends' = MapRestrict(w.appends, {o.id : o \in {x \in w.io : x.k = "append"}})
  /\ puts' = MapRestrict(w.puts, {o.id : o \in {x \in w.io : x.k = "put"}})
  /\ low' = w.low
  /\ io' = w.io
  /\ ready' = w.ready
  /\ timers' = MapRestrict(w.timers, Held(w))
  /\ out' = Observed(w)
  /\ ghost' = [w.ghost EXCEPT !.calls = MapRestrict(@, (DOMAIN @) \ Answered(w))]
  /\ opts' = w.opts

\* a step of the program: the handler runs to its end, and the world it leaves
\* is the next state
Commit(w) == Committed(Run(w))

(***************************************************************************)
(* The initial states: a feed just constructed over empty storage.         *)
(***************************************************************************)
\* the ways the feed is created: a writer with no key, or a sparse reader
\* with the key of a remote writer that holds remoteLen blocks; calls is the
\* number of calls and faults of a run
WriterOptions(calls) ==
  {o \in {[role |-> "writer", live |-> l, sparse |-> FALSE, indexing |-> x, codec |-> c,
            overwrite |-> FALSE, createIfMissing |-> TRUE, remoteLen |-> 0,
            remoteLive |-> FALSE, calls |-> calls] :
              l \in BOOLEAN, x \in BOOLEAN, c \in Codecs} :
     o.codec = "binary" \/ (o.live /\ ~o.indexing)}

ReaderOptions(calls) ==
  {[role |-> "reader", live |-> TRUE, sparse |-> TRUE, indexing |-> FALSE, codec |-> "binary",
    overwrite |-> FALSE, createIfMissing |-> TRUE, remoteLen |-> n, remoteLive |-> l,
    calls |-> calls] : n \in 1..MaxRemote, l \in BOOLEAN}

NoBatch == [running |-> FALSE, callbacks |-> << >>, pendingBatch |-> << >>,
            pendingCallbacks |-> << >>]

NoLow == [callback |-> << >>, callbacks |-> << >>, pending |-> << >>]

\* the constructor's this._ready(onerror)
OnError == Call("onerror", 0, 0, << >>, NoProof, << >>, TRUE)

NoGhost ==
  [fails |-> 0, crashes |-> 0, reopens |-> 0, sids |-> 0, made |-> 0, calls |-> << >>,
   finalized |-> FALSE, log |-> << >>, last |-> "none", quiet |-> FALSE, length |-> 0, byteLength |-> 0,
   bitfield |-> {}]

Constructed ==
  /\ feed = Feed(opts)
  /\ storage = EmptyStorage
  /\ batch = NoBatch
  /\ appends = << >>
  /\ puts = << >>
  /\ low = NoLow
  /\ io = {}
  /\ ready = <<OnError>>
  /\ timers = << >>
  /\ out = << >>
  /\ ghost = NoGhost

Init == opts \in WriterOptions(MaxCalls) \cup ReaderOptions(MaxCalls) /\ Constructed

InitAppend == opts \in WriterOptions(MaxAppendCalls) /\ Constructed

InitPut == opts \in ReaderOptions(MaxPutCalls) /\ Constructed

\* a live writer that stores its data, and a longer run
InitWait ==
  /\ opts \in {o \in WriterOptions(MaxWaitCalls) : o.live /\ ~o.indexing}
  /\ Constructed

\* a writer that stores its data
InitTimeout ==
  /\ opts \in {o \in WriterOptions(MaxTimeoutCalls) : ~o.indexing}
  /\ Constructed

\* a writer on empty storage, made with no key, with and without
\* createIfMissing
InitOpen ==
  /\ opts \in {[o EXCEPT !.createIfMissing = c] : o \in WriterOptions(MaxOpenCalls), c \in BOOLEAN}
  /\ Constructed

(***************************************************************************)
(* The steps: the calls of a caller, the completion of open and of a       *)
(* storage operation, a crash, and a second instance over the storage.     *)
(***************************************************************************)
\* the batches a caller appends
Batches == {<<v>> : v \in Values} \cup {<<<<1>>, <<2, 2>>>>}

RECURSIVE Waits(_)
Waits(calls) == IF calls = << >> THEN 0 ELSE Len(Head(calls).batch) + Waits(Tail(calls))

\* the blocks the feed holds or is about to hold
Planned(w) ==
  (IF w.feed.opened THEN Max(w.feed.merkle.blocks, w.feed.length)
   ELSE OpenLength(w.storage.bitfield.tree))
  + Len(w.batch.pendingBatch) + Waits(w.ready)
  + Cardinality({o \in w.io : o.k = "append" /\ o.op = "putNode" /\ isBlock(o.index)
                                /\ o.index >= 2 * w.feed.length /\ ~w.feed.opened})

\* a call made before open has called back waits; so many calls may wait
Early == ghost.made < opts.calls /\ (feed.opened \/ Len(ready) <= MaxEarly)

AppendCall(b) ==
  LET id == NewId(Start.ghost.calls)
  IN  /\ Early
      /\ Cardinality(Outstanding(Start, {"append", "flush"})) < MaxAppends
      /\ Planned(Start) + Len(b) <= MaxBlocks
      /\ Commit(append(Remember(Start, id, Made(Start, "append", 0, b, TRUE, "")), b, id))

FlushCall ==
  LET id == NewId(Start.ghost.calls)
  IN  /\ Early
      /\ Cardinality(Outstanding(Start, {"append", "flush"})) < MaxAppends
      /\ Commit(flush(Remember(Start, id, Made(Start, "flush", 0, << >>, TRUE, "")), id))

\* the ways a proof is sent: as the remote writer made it, or with one thing
\* changed
Tampers == {"none", "block", "node1", "node2", "nosig", "badsig"}

BadHash == <<9>>

BadSignature == <<4, 9>>

PutData(index, how) == IF how = "block" THEN TamperedBlock(index) ELSE RemoteBlock(index)

TamperNode(prf, k) ==
  IF k > Len(prf.nodes) THEN prf ELSE [prf EXCEPT !.nodes[k].hash = BadHash]

PutProof(o, m, index, how) ==
  LET prf == RemoteProof(m, o.remoteLive, index)
  IN  CASE how = "node1"  -> TamperNode(prf, 1)
        [] how = "node2"  -> TamperNode(prf, 2)
        [] how = "nosig"  -> [prf EXCEPT !.signature = NoSig]
        [] how = "badsig" -> [prf EXCEPT !.signature = BadSignature]
        [] OTHER          -> prf

\* whether the proof sent differs from the remote writer's
Tampered(o, m, index, how) ==
  how = "block" \/ PutProof(o, m, index, how) # RemoteProof(m, o.remoteLive, index)

PutCallUpTo(most, index, m, how) ==
  LET id   == NewId(Start.ghost.calls)
      data == PutData(index, how)
      made == Made(Start, "put", index, data, TRUE,
                   IF ~Tampered(opts, m, index, how) THEN "none"
                   ELSE IF how \in {"node1", "node2"} THEN "node"
                   ELSE IF how \in {"nosig", "badsig"} THEN "sig" ELSE how)
  IN  /\ Early
      /\ opts.role = "reader"
      /\ index < m
      /\ m <= opts.remoteLen
      /\ m = opts.remoteLen \/ (opts.remoteLive /\ m = index + 1)
      /\ Cardinality(Outstanding(Start, {"put"})) < most
      /\ Commit(put(Remember(Start, id, made), index, data, PutProof(opts, m, index, how), id))

PutCall(index, m, how) == PutCallUpTo(MaxPuts, index, m, how)

\* a callback that nothing refers to: no call outstanding, and no callback
\* the feed still holds after its timer has fired
FreshId == CHOOSE i \in 1..(Cardinality(DOMAIN ghost.calls \cup DOMAIN timers) + 1) :
             i \notin DOMAIN ghost.calls \cup DOMAIN timers

GetCall(index, wait) ==
  /\ Early
  /\ Cardinality(Outstanding(Start, {"get", "seek"})) < MaxReads
  /\ Commit(get(Remember(Start, FreshId, Made(Start, "get", index, << >>, wait, "")),
                index, wait, FALSE, FreshId))

\* get(index, {wait, timeout}, cb)
GetTimeoutCall(index, wait) ==
  /\ Early
  /\ Cardinality(Outstanding(Start, {"get", "seek"})) < MaxReads
  /\ Commit(get(Remember(Start, FreshId, Made(Start, "get", index, << >>, wait, "timeout")),
                index, wait, TRUE, FreshId))

\* the timer of a get fires
TimerFire(id) ==
  /\ id \in DOMAIN timers
  /\ timers[id].set
  /\ Commit(ontimeout(Start, id))

SeekCall(bytes, wait) ==
  LET id == NewId(Start.ghost.calls)
  IN  /\ Early
      /\ Cardinality(Outstanding(Start, {"get", "seek"})) < MaxReads
      /\ Commit(seek(Remember(Start, id, Made(Start, "seek", bytes, << >>, wait, "")),
                     bytes, 0, 0, wait, id))

FinalizeCall ==
  LET id == NewId(Start.ghost.calls)
  IN  /\ Early
      /\ feed.opened
      /\ ~ghost.finalized
      /\ Outstanding(Start, {"finalize"}) = {}
      /\ Commit(finalize(Remember(Start, id, Made(Start, "finalize", 0, << >>, TRUE, "")), id))

CloseCall ==
  LET id == NewId(Start.ghost.calls)
  IN  /\ Early
      /\ ~storage.closed
      /\ Outstanding(Start, {"close"}) = {}
      /\ Commit(close(Remember(Start, id, Made(Start, "close", 0, << >>, TRUE, "")), id))

DownloadCall(start, end) ==
  /\ Early
  /\ ghost.sids < MaxDownloads
  /\ Commit(download([Start EXCEPT !.ghost.sids = @ + 1, !.ghost.made = @ + 1],
                      start, end, ghost.sids + 1))

UndownloadCall(start, end) ==
  /\ Early
  /\ feed.selections # << >>
  /\ Commit(undownload([Start EXCEPT !.ghost.made = @ + 1], start, end))

UndownloadSelCall(i) ==
  /\ Early
  /\ i \in 1..Len(feed.selections)
  /\ Commit(undownloadSel([Start EXCEPT !.ghost.made = @ + 1], i))

\* open calls back
OpenDone ==
  /\ feed.opening = "wait"
  /\ Commit(openDone(Start))

\* a storage operation completes, or fails
IoDone(o, ok) ==
  /\ o \in io
  /\ IsNext(io, o)
  /\ ok \/ (ghost.fails + ghost.crashes < MaxFaults /\ ghost.made < opts.calls)
  /\ Commit(ioDone(Start, o, ok))

\* a new instance of the feed over the storage, made with the same options
Fresh(w) ==
  [w EXCEPT !.feed = Feed(w.opts), !.batch = NoBatch, !.appends = << >>, !.puts = << >>,
            !.low = NoLow, !.io = {}, !.ready = <<OnError>>, !.timers = << >>,
            !.storage.closed = FALSE,
            !.ghost.calls = << >>]

\* the process stops while storage operations are in flight, and starts again
Crash ==
  /\ io # {}
  /\ ~storage.closed
  /\ ghost.fails + ghost.crashes < MaxFaults
  /\ ghost.made < opts.calls
  /\ Commit(Fresh([Mark(Start, "crash") EXCEPT !.ghost.crashes = @ + 1, !.ghost.made = @ + 1]))

\* the feed has been closed and is created again
Reopen ==
  /\ storage.closed
  /\ ghost.reopens < MaxReopens
  /\ Commit(Fresh([Start EXCEPT !.ghost.reopens = @ + 1]))

Next ==
  \/ \E b \in Batches : AppendCall(b)
  \/ FlushCall
  \/ \E index \in 0..(MaxRemote - 1), m \in 1..MaxRemote, how \in Tampers : PutCall(index, m, how)
  \/ \E index \in 0..MaxGet, wait \in BOOLEAN : GetCall(index, wait)
  \/ \E bytes \in 1..MaxSeek, wait \in BOOLEAN : SeekCall(bytes, wait)
  \/ FinalizeCall
  \/ CloseCall
  \/ \E start \in 0..1, end \in {0, 2} : DownloadCall(start, end)
  \/ \E start \in 0..1, end \in {0, 2} : UndownloadCall(start, end)
  \/ \E i \in 1..(MaxDownloads + 1) : UndownloadSelCall(i)
  \/ OpenDone
  \/ \E o \in io, ok \in BOOLEAN : IoDone(o, ok)
  \/ Crash
  \/ Reopen

Spec == Init /\ [][Next]_vars

\* a writer and its appends
NextAppend ==
  \/ \E b \in Batches : AppendCall(b)
  \/ FlushCall
  \/ \E index \in 0..MaxGet, wait \in BOOLEAN : GetCall(index, wait)
  \/ FinalizeCall
  \/ CloseCall
  \/ OpenDone
  \/ \E o \in io, ok \in BOOLEAN : IoDone(o, ok)
  \/ Crash
  \/ Reopen

SpecAppend == InitAppend /\ [][NextAppend]_vars

\* a reader and its puts
NextPut ==
  \/ \E index \in 0..(MaxRemote - 1), m \in 1..MaxRemote, how \in Tampers : PutCall(index, m, how)
  \/ \E index \in 0..MaxGet, wait \in BOOLEAN : GetCall(index, wait)
  \/ CloseCall
  \/ OpenDone
  \/ \E o \in io, ok \in BOOLEAN : IoDone(o, ok)
  \/ Reopen

SpecPut == InitPut /\ [][NextPut]_vars

\* a writer, its appends and the gets that wait for them
NextWait ==
  \/ \E b \in Batches : AppendCall(b)
  \/ \E index \in 0..MaxGet, wait \in BOOLEAN : GetCall(index, wait)
  \/ OpenDone
  \/ \E o \in io, ok \in BOOLEAN : IoDone(o, ok)

SpecWait == InitWait /\ [][NextWait]_vars

\* a writer, its appends and the gets with a timeout
NextTimeout ==
  \/ \E b \in Batches : AppendCall(b)
  \/ \E index \in 0..MaxGet, wait \in BOOLEAN : GetCall(index, wait)
  \/ \E index \in 0..MaxGet, wait \in BOOLEAN : GetTimeoutCall(index, wait)
  \/ \E id \in 1..(MaxTimeoutCalls + 1) : TimerFire(id)
  \/ CloseCall
  \/ OpenDone
  \/ \E o \in io, ok \in BOOLEAN : IoDone(o, ok)

\* a timer is set: ontimeout is to run
TimerSet == \E id \in DOMAIN timers : timers[id].set

\* the step of a timer that fires
TimerFired == \E j \in 1..Len(out') : out'[j].val = ETIMEDOUT

\* the step of open calling back
Opens == feed.opening = "wait" /\ feed'.opening = "finished"

\* the event loop runs a timer that stays set, and the storage answers open:
\* weak fairness of TimerFire and of OpenDone, written with the conditions
\* under which they can be taken
SpecTimeout ==
  /\ InitTimeout /\ [][NextTimeout]_vars
  /\ ([]<>(~TimerSet) \/ []<><<TimerFired>>_vars)
  /\ ([]<>(feed.opening # "wait") \/ []<><<Opens>>_vars)

\* a reader and its puts, made without waiting for the callback of the put
\* before
InitPuts == opts \in ReaderOptions(MaxOverlapCalls) /\ Constructed

NextPuts ==
  \/ \E index \in 0..(MaxRemote - 1), m \in 1..MaxRemote, how \in Tampers :
       PutCallUpTo(MaxOverlap, index, m, how)
  \/ OpenDone
  \/ \E o \in io, ok \in BOOLEAN : IoDone(o, ok)

SpecPuts == InitPuts /\ [][NextPuts]_vars

\* a writer and its appends, a reader and its puts, and the flushes of the
\* bitfield that follow them
InitSync == opts \in WriterOptions(MaxSyncCalls) \cup ReaderOptions(MaxSyncCalls) /\ Constructed

NextSync ==
  \/ \E b \in Batches : AppendCall(b)
  \/ \E index \in 0..(MaxRemote - 1), m \in 1..MaxRemote, how \in Tampers : PutCall(index, m, how)
  \/ OpenDone
  \/ \E o \in io, ok \in BOOLEAN : IoDone(o, ok)

\* the step of a storage operation that completes or fails
IoCompletes == \E o \in io : o \notin io'

\* the storage answers open and every operation: weak fairness of OpenDone
\* and of IoDone, written with the conditions under which they can be taken
SpecSync ==
  /\ InitSync /\ [][NextSync]_vars
  /\ ([]<>(feed.opening # "wait") \/ []<><<Opens>>_vars)
  /\ ([]<>(io = {}) \/ []<><<IoCompletes>>_vars)

\* a writer made with no key on empty storage, its open and its calls
NextOpen ==
  \/ \E b \in Batches : AppendCall(b)
  \/ \E index \in 0..MaxGet, wait \in BOOLEAN : GetCall(index, wait)
  \/ CloseCall
  \/ OpenDone
  \/ \E o \in io, ok \in BOOLEAN : IoDone(o, ok)

SpecOpen == InitOpen /\ [][NextOpen]_vars

(***************************************************************************)
(* Round trip of append and get.                                           *)
(***************************************************************************)
\* the sum of the encoded sizes of the values of a batch
RECURSIVE EncodedSize(_, _)
EncodedSize(codec, b) ==
  IF b = << >> THEN 0 ELSE Len(encode(codec, Head(b))) + EncodedSize(codec, Tail(b))

\* what get(index) reads of the storage and decodes
Got(index) == decode(opts.codec, getData(storage, index).data)

\* the batch of _append callback e is in the feed: the lengths have grown by
\* it, its bits are set and its values are read back
RoundTrip(e) ==
  /\ feed.length = e.start + Len(e.batch)
  /\ feed.byteLength = e.startBytes + EncodedSize(opts.codec, e.batch)
  /\ \A k \in 1..Len(e.batch) :
       /\ e.start + k - 1 \in feed.bitfield
       /\ getData(storage, e.start + k - 1).ok
       /\ Got(e.start + k - 1) = e.batch[k]

\* the callbacks of _append invoked without an error by the last step, on a
\* feed that stores its data
Appended ==
  {j \in 1..Len(out) : out[j].k = "_append" /\ ~out[j].err /\ out[j].batch # << >>
                         /\ ~opts.indexing}

\* C1: when append(batch) calls back without error on an opened writable
\* feed, length has grown by the number of values, byteLength by the sum of
\* their encoded sizes, the data bit of every new index is set and get of
\* start + k returns the k-th value appended.
C1_AppendRoundTrip == \A j \in Appended : RoundTrip(out[j])

\* C1: an append has called back without error after an earlier append had
\* failed on a storage error
C1_AppendedAfterFailure == Appended # {} /\ ghost.fails > 0

\* C1 holds of the appends of a run in which no storage operation has failed
\* and the process has not stopped
C1_AppendRoundTripNoFault ==
  (ghost.fails = 0 /\ ghost.crashes = 0) => \A j \in Appended : RoundTrip(out[j])

(***************************************************************************)
(* Monotonicity of the lengths.                                            *)
(***************************************************************************)
\* C2: across append, put, get, seek, download, undownload, finalize and
\* flush on an opened feed, no step decreases length or byteLength.
C2_LengthsMonotone ==
  [][(feed.opened /\ feed'.opened /\ ghost'.crashes = ghost.crashes
        /\ ghost'.reopens = ghost.reopens)
       => (feed'.length >= feed.length /\ feed'.byteLength >= feed.byteLength)]_vars

\* C2: an append or a put has grown the length of an opened feed
C2_Grown == feed.opened /\ feed.length > 0 /\ feed.byteLength > 0 /\ ghost.fails > 0

(***************************************************************************)
(* Soundness of put.                                                       *)
(***************************************************************************)
\* the callbacks of put invoked by the last step
Puts == {j \in 1..Len(out) : out[j].k = "put" /\ out[j].obs.k = "put"}

\* the remote writer the reader replicates from
Remote == RemoteFeeds[opts.remoteLen, opts.remoteLive]

\* whatever the reader has stored is the remote writer's: the nodes, the
\* signatures, and the block of every data bit set
Genuine ==
  /\ \A i \in DOMAIN storage.nodes :
       i \in DOMAIN Remote.storage.nodes /\ storage.nodes[i] = Remote.storage.nodes[i]
  /\ \A i \in DOMAIN storage.signatures :
       i \in DOMAIN Remote.storage.signatures
         /\ storage.signatures[i] = Remote.storage.signatures[i]
  /\ (feed.opened /\ ~storage.closed) =>
       \A i \in feed.bitfield : getData(storage, i).ok /\ getData(storage, i).data = RemoteBlock(i)

\* every block of the remote writer has been put
AllPut == feed.opened /\ feed.bitfield = 0..(opts.remoteLen - 1)

\* C3 as stated: a put whose block, or any one proof node, differs from the
\* writer's is rejected with an error.
C3_TamperedRejected ==
  \A j \in Puts : out[j].obs.how \in {"block", "node"} => out[j].err

\* C3, amended: a put of the writer's block with the writer's proof succeeds
\* in every order of the indices and sets the data bit, and after all N puts
\* length is N; a put whose block differs is rejected with an error, sets no
\* bit and stores nothing; a put with a changed proof node is rejected, or it
\* succeeds without the changed node: what the reader stores is the writer's.
C3_PutSound ==
  opts.role = "reader" =>
    /\ \A j \in Puts :
         /\ (out[j].obs.how = "none" /\ ~out[j].obs.faulted) => (~out[j].err /\ out[j].obs.has)
         /\ out[j].obs.how = "block" => (out[j].err /\ ~out[j].obs.stored)
         /\ (out[j].obs.how = "block" /\ ~out[j].obs.had /\ ~out[j].obs.early /\ ~out[j].obs.mixed)
              => ~out[j].obs.has
    /\ AllPut => feed.length = opts.remoteLen
    /\ Genuine

\* C3: the last block of a writer of two blocks or more has been put with a
\* changed proof node, and the put has succeeded
C3_ChangedNodePassed ==
  /\ opts.remoteLen >= 2
  /\ AllPut
  /\ \E j \in Puts : out[j].obs.how = "node" /\ ~out[j].err /\ out[j].obs.has /\ ~out[j].obs.had

(***************************************************************************)
(* A put that fails.                                                       *)
(***************************************************************************)
\* C4: a put that calls back with an error, for a verification failure or a
\* storage error, leaves length, byteLength, live, the data bits and the tree
\* bits as they were when it was made.
C4_FailedPutChangesNothing ==
  \A j \in Puts :
    (out[j].err /\ ~out[j].obs.early /\ ~out[j].obs.mixed) => out[j].obs.same

\* C4 holds of the puts that are rejected by the verification
C4_RejectedPutChangesNothing ==
  \A j \in Puts :
    (out[j].err /\ ~out[j].obs.early /\ ~out[j].obs.mixed /\ ~out[j].obs.faulted)
       => out[j].obs.same

\* C4: a put has failed on a storage error
C4_PutFailedOnStorage ==
  \E j \in Puts : out[j].err /\ ~out[j].obs.early /\ out[j].obs.faulted /\ out[j].obs.how = "none"

(***************************************************************************)
(* A put of a block the feed holds.                                        *)
(***************************************************************************)
\* C7: a put of the same index, data and proof as a put that has succeeded
\* calls back without error and leaves length, byteLength, the bits and the
\* nodes, data and signatures stored as they were.
C7_PutIdempotent ==
  \A j \in Puts :
    (out[j].obs.had /\ out[j].obs.how = "none" /\ ~out[j].obs.faulted /\ ~out[j].obs.mixed)
       => (~out[j].err /\ out[j].obs.same /\ out[j].obs.kept)

\* C7: a block the feed held has been put again
C7_PutAgain ==
  \E j \in Puts : out[j].obs.had /\ out[j].obs.how = "none" /\ ~out[j].err /\ ~out[j].obs.faulted

(***************************************************************************)
(* Closing, stopping and opening again.                                    *)
(***************************************************************************)
\* open has called back in the last step, and no call that waited for it has
\* started anything
JustOpened ==
  /\ \E j \in 1..Len(out) : out[j].k \in {"ready", "error"} /\ out[j].id = 0
  /\ ghost.calls = << >>

\* the feed is what it was at the last close or crash
AsMarked ==
  /\ feed.opened
  /\ feed.length = ghost.length
  /\ feed.byteLength = ghost.byteLength
  /\ feed.bitfield = ghost.bitfield

\* C5: a feed reached by completed appends and puts, closed and opened again
\* over the same storage, has the length, the byteLength and the data bits it
\* had before the close.
C5_OpenIdempotent ==
  (JustOpened /\ ghost.last = "close" /\ ghost.quiet /\ ghost.reopens > 0
     /\ ghost.fails = 0 /\ ghost.crashes = 0)
    => AsMarked

\* C6: a feed that stopped while the writes of an append were in flight,
\* before any bit of it was set, opens again with the length it had before
\* that append and with no bit of it set.
C6_CrashKeepsLength ==
  (JustOpened /\ ghost.last = "crash" /\ ghost.quiet /\ ghost.fails = 0) => AsMarked

\* C6 holds of the live feeds
C6_LiveCrashKeepsLength ==
  (JustOpened /\ ghost.last = "crash" /\ ghost.quiet /\ ghost.fails = 0 /\ opts.live) => AsMarked

(***************************************************************************)
(* finalize.                                                               *)
(***************************************************************************)
\* the callbacks of append invoked by the last step, of the appends of one
\* value or more
Appends ==
  {j \in 1..Len(out) : out[j].k = "append" /\ out[j].obs.k = "append"}

\* C8: after finalize has completed on a feed created with live: false, with
\* no append under way or completed in between, the key is the hash of the
\* roots, and every append made afterwards calls back with an error.
C8_FinalizedImmutable ==
  ~opts.live =>
    /\ \A j \in 1..Len(out) :
         (out[j].k = "finalize" /\ ~out[j].err /\ out[j].obs.same /\ ~out[j].obs.faulted
            /\ ~batch.running)
           => feed.key = hash_tree(feed.merkle.roots)
    /\ \A j \in Appends : out[j].obs.finalized => out[j].err

\* C8: an append made after finalize had completed has called back without
\* an error
C8_AppendedAfterFinalize ==
  ~opts.live /\ \E j \in Appends : out[j].obs.finalized /\ ~out[j].err /\ ~out[j].obs.early

(***************************************************************************)
(* close and the waiters.                                                  *)
(***************************************************************************)
\* C9: after close the feed is neither readable nor writable, and every
\* waiter queued by get or seek has been called back: none stays parked.
C9_CloseCancelsWaiters ==
  (\E j \in 1..Len(out) : out[j].k = "close")
    => (~feed.readable /\ ~feed.writable /\ feed.waiting = << >>)

\* C9 holds of the flags: after close the feed is neither readable nor
\* writable
C9_CloseClearsFlags ==
  (\E j \in 1..Len(out) : out[j].k = "close") => (~feed.readable /\ ~feed.writable)

(***************************************************************************)
(* get of a block the feed does not hold.                                  *)
(***************************************************************************)
\* the gets whose callback is outstanding, made on an opened feed for an
\* index whose data bit was unset
Missed ==
  {id \in DOMAIN ghost.calls :
     /\ ghost.calls[id].k = "get"
     /\ ghost.calls[id].pre.opened /\ ~ghost.calls[id].pre.closed
     /\ ghost.calls[id].pre.bitfield = {}}

Parked(id) == \E k \in 1..Len(feed.waiting) : feed.waiting[k].callback = id

\* the callbacks of get invoked by the last step, of gets that were made on an
\* opened feed that stores its data, for an index whose data bit was unset
Woken ==
  {j \in 1..Len(out) :
     /\ out[j].k = "get" /\ out[j].obs.k = "get"
     /\ ~out[j].obs.had /\ ~out[j].obs.early /\ out[j].obs.wait
     /\ ~out[j].obs.faulted /\ ~opts.indexing}

\* C10: a get of an index whose data bit is unset calls back with an error
\* at once when wait is false, and is parked otherwise; once the bit has been
\* set and the bitfield sync has run, the waiter is parked no more and its
\* callback is invoked once, with the block.
C10_WaitingGet ==
  /\ \A id \in Missed : ghost.calls[id].wait
  /\ \A id \in Missed :
       (ghost.calls[id].index \notin feed.bitfield /\ ~storage.closed) => Parked(id)
  /\ \A j \in Woken :
       ~out[j].err /\ out[j].obs.right /\ ~out[j].obs.twice /\ ~Parked(out[j].id)

\* C10 holds of the runs in which no storage operation has failed
C10_WaitingGetNoFault == ghost.fails = 0 => C10_WaitingGet

\* C10: a parked get has been called back
C10_Woken == \E j \in Woken : ~out[j].err

(***************************************************************************)
(* get with a timeout.                                                     *)
(***************************************************************************)
\* the callbacks of get invoked by the last step
Gets == {j \in 1..Len(out) : out[j].k = "get"}

\* the gets with a timeout whose callback is outstanding
TimedOutstanding(id) ==
  id \in DOMAIN ghost.calls /\ ghost.calls[id].k = "get" /\ ghost.calls[id].how = "timeout"

\* the calls that wait for open with callback id
Deferred(id) == \E k \in 1..Len(ready) : ready[k].k = "get" /\ ready[k].id = id

\* no callback of a get is invoked twice: a callback invoked is the one of a
\* call that was outstanding, and it is invoked once in the step; the timeout
\* error goes to a get with a timeout only; a timer is set only while the
\* callback it wraps is outstanding, and is set as long as it is, unless the
\* call still waits for open
GetCalledOnce ==
  /\ \A j \in Gets : out[j].obs.k = "get" /\ ~out[j].obs.twice
  /\ \A j \in Gets : out[j].val = ETIMEDOUT => (out[j].err /\ out[j].obs.how = "timeout")
  /\ \A id \in DOMAIN timers : timers[id].set => TimedOutstanding(id)
  /\ \A id \in DOMAIN timers : timers[id].failed => (~timers[id].set /\ ~TimedOutstanding(id))
  /\ \A id \in DOMAIN ghost.calls :
       TimedOutstanding(id) => (Deferred(id) \/ (id \in DOMAIN timers /\ timers[id].set))

\* C11: a get with a timeout invokes the callback exactly once under every
\* interleaving of the timer and the read.  Never twice: with the timeout
\* error when the timer fires first, after which the result of the read or of
\* the waiter is dropped, or with the result of the read when it comes first,
\* after which the timer does not call back.  And once: the callback of
\* every get with a timeout is invoked.
C11_GetTimeoutOnce ==
  /\ []GetCalledOnce
  /\ \A id \in 1..(MaxTimeoutCalls + 1) : TimedOutstanding(id) ~> ~TimedOutstanding(id)

\* C11: the timer of a parked get has fired, the block has been appended
\* since and the read of the waiter is in flight or has completed: its
\* result is dropped
C11_ResultDropped ==
  \E id \in DOMAIN timers :
    /\ timers[id].failed
    /\ ~TimedOutstanding(id)
    /\ \E o \in io : o.k = "get" /\ o.id = id

(***************************************************************************)
(* undownload.                                                             *)
(***************************************************************************)
\* the selection download returned as object sid is in the selections sels
Selected(sels, sid) == \E k \in 1..Len(sels) : sels[k].sid = sid

\* the callback of selection sid is invoked with an error among the
\* callbacks cbs
Cancelled(cbs, sid) ==
  \E j \in 1..Len(cbs) : cbs[j].k = "download" /\ cbs[j].id = sid /\ cbs[j].err

\* the step is one of the same instance of the feed
SameInstance == ghost'.crashes = ghost.crashes /\ ghost'.reopens = ghost.reopens

\* the selections registered by a caller's download
Registered == {k \in 1..Len(feed.selections) : feed.selections[k].sid > 0}

\* C12: undownload of a selection registered by download, called with the
\* selection itself or with a range that matches it, removes the selection
\* and invokes its callback with a cancellation error: a step that removes a
\* selection invokes its callback, and a step that invokes the callback has
\* removed the selection.
C12_UndownloadCancels ==
  [][SameInstance =>
       \A k \in Registered :
         /\ ~Selected(feed'.selections, feed.selections[k].sid)
              => Cancelled(out', feed.selections[k].sid)
         /\ Cancelled(out', feed.selections[k].sid)
              => ~Selected(feed'.selections, feed.selections[k].sid)]_vars

\* C12 holds of the undownload that is given the selection itself while the
\* selection is at the place its _index names: it removes the selection and
\* invokes its callback
C12_UndownloadByObject ==
  [][SameInstance =>
       \A k \in Registered :
         (feed.selections[k]._index = k - 1 /\ Cancelled(out', feed.selections[k].sid))
           => ~Selected(feed'.selections, feed.selections[k].sid)]_vars

\* C12: a selection registered by download is in the selections
C12_Registered == Registered # {}

(***************************************************************************)
(* The order of the appends.                                               *)
(***************************************************************************)
\* the callbacks of append and flush invoked by the last step
Batched ==
  {j \in 1..Len(out) : out[j].k = "append" /\ out[j].obs.k \in {"append", "flush"}}

\* the appends and flushes whose callback is outstanding
Submitted == {id \in DOMAIN ghost.calls : ghost.calls[id].k \in {"append", "flush"}}

\* the batches of the callbacks of append invoked at places j..n of out, one
\* after the other
RECURSIVE Answer(_, _)
Answer(j, n) ==
  IF j > n THEN << >>
  ELSE (IF j \in Batched THEN out[j].obs.data ELSE << >>) \o Answer(j + 1, n)

\* the place of the next callback of _append after place j of out, or the
\* end of out
RECURSIVE Until(_)
Until(j) ==
  IF j > Len(out) THEN Len(out)
  ELSE IF out[j].k = "_append" THEN j - 1 ELSE Until(j + 1)

\* at most one _append has writes in flight; the callbacks of append are
\* invoked in the order the calls were made in: one invoked later in a step
\* was made later, and no call made earlier is still outstanding; and the
\* batch an _append has written at the end of the feed is the batches of the
\* calls it answers, in the order they were made in
Fifo ==
  /\ Cardinality(DOMAIN appends) <= 1
  /\ \A i, j \in Batched : i < j => out[i].obs.seq < out[j].obs.seq
  /\ \A j \in Batched : \A id \in Submitted : ghost.calls[id].seq > out[j].obs.seq
  /\ \A j \in 1..Len(out) :
       (out[j].k = "_append" /\ ~out[j].err) => out[j].batch = Answer(j + 1, Until(j + 1))

\* C13: appends are serialized first in, first out: for any number of
\* concurrent append calls on one feed, at most one _append is in flight
\* between its start and its completion callback, blocks are assigned indices
\* in submission order and the completion callbacks are invoked in submission
\* order.
C13_AppendsFifo == Fifo

\* C13 holds of the feeds that store their data
C13_AppendsFifoStored == ~opts.indexing => Fifo

\* C13: two appends made while another append was under way have been
\* written as one batch and called back, on a feed that stores its data
C13_Coalesced ==
  /\ ~opts.indexing
  /\ \E i, j \in Batched : i < j /\ out[i].obs.data # << >> /\ out[j].obs.data # << >>
                             /\ ~out[j].err

(***************************************************************************)
(* The signature of a live feed.                                           *)
(***************************************************************************)
\* the nodes stored at the roots of a feed of the length of the feed
StoredRoots == LookupNodes(storage, << >>, FullRoots(2 * feed.length))

\* a signature is stored at slot length - 1, and it is a signature of the
\* hash of the roots stored for the length
Signed ==
  /\ HasSignature(storage, feed.length - 1)
  /\ Len(StoredRoots) = Len(FullRoots(2 * feed.length))
  /\ verify(hash_tree(StoredRoots), storage.signatures[feed.length - 1], feed.key)

\* an opened live feed that holds a block
LiveFeed == feed.opened /\ feed.live /\ feed.length > 0 /\ ~storage.closed

\* C14: in every reachable state of an opened live feed with length > 0, a
\* signature is stored at slot length - 1 and it is a valid signature over
\* the root hash of fullRoots(2 * length).
C14_SignatureInvariant == LiveFeed => Signed

\* C14 holds of the states in which no put has writes in flight, in the runs
\* in which no storage operation has failed
C14_SignedAtRest == (LiveFeed /\ puts = << >> /\ ghost.fails = 0) => Signed

\* C14: a put has extended the length of a live feed, and its writes are in
\* flight
C14_PutInFlight == LiveFeed /\ puts # << >> /\ ghost.fails = 0

(***************************************************************************)
(* byteLength and the roots.                                               *)
(***************************************************************************)
\* every root of the length of the feed is stored, and byteLength is the sum
\* of the sizes of the stored roots
RootsSized ==
  /\ Len(StoredRoots) = Len(FullRoots(2 * feed.length))
  /\ feed.byteLength = SumSizes(StoredRoots)

OpenedFeed == feed.opened /\ ~storage.closed

\* C15: in every reachable state of an opened feed, byteLength equals the sum
\* of the size fields of the nodes at fullRoots(2 * length).
C15_ByteLengthIsRootSizes == OpenedFeed => RootsSized

\* C15 holds of the feeds that store their data, in the states in which no
\* put has writes in flight, in the runs in which no storage operation has
\* failed
C15_ByteLengthAtRest ==
  (OpenedFeed /\ ~opts.indexing /\ puts = << >> /\ ghost.fails = 0) => RootsSized

\* C15: an opened feed holds blocks
C15_Holding == OpenedFeed /\ feed.length > 1 /\ RootsSized

(***************************************************************************)
(* Data bits and leaves.                                                   *)
(***************************************************************************)
\* the tree bit of the leaf of block p is set and the leaf is stored
Backed(p) == 2 * p \in feed.tree /\ HasNode(storage, 2 * p)

DataBitsBacked == \A p \in feed.bitfield : Backed(p)

\* C16: in every reachable state, for every block index p whose data bit is
\* set, the tree bit at 2p is set and the leaf node for 2p has been written
\* to storage.
C16_DataBitHasLeaf == ~storage.closed => DataBitsBacked

\* C16 holds of the feeds that store their data, in the runs in which no
\* storage operation has failed
C16_DataBitHasLeafStored ==
  (~storage.closed /\ ~opts.indexing /\ ghost.fails = 0) => DataBitsBacked

\* C16: two data bits have been set, and each has its leaf
C16_BitsSet == ~storage.closed /\ Cardinality(feed.bitfield) > 1 /\ DataBitsBacked

(***************************************************************************)
(* The key of a feed made with no key on empty storage.                    *)
(***************************************************************************)
HasKeyPair == feed.key # NoKey /\ feed.secretKey # NoKey

\* the feed is writable until it is closed
Writable == storage.closed \/ feed.writable

\* the step in which open calls back with an error: every call that waited
\* for it is called back with the error, but for close, which closes the
\* storage whatever open called back with, and the feed is not opened
OpenFails ==
  /\ feed.opening = "wait" /\ feed'.opening = "run"
  /\ ~feed'.opened
  /\ Len(out') >= Len(ready)
  /\ \A j \in 1..Len(out') : out'[j].k # "close" => out'[j].err

OpenAnswers == feed.opening = "wait" /\ feed'.opening # "wait"

Refused == ~opts.createIfMissing => (~feed.opened /\ feed.key = NoKey /\ feed.opening # "finished")

C17_OpenRefused == ~opts.createIfMissing /\ feed.opening = "wait" /\ ghost.made > 0 /\ out # << >>

(***************************************************************************)
(* Appends and puts, one at a time.                                        *)
(***************************************************************************)
Mutating == {"append", "put"}

\* at most one _write or _append has writes in flight
OneAtATime == Cardinality(DOMAIN puts) + Cardinality(DOMAIN appends) <= 1

\* the callbacks of appends and puts invoked in a step are those of the calls
\* made first, in the order of the calls
InSubmissionOrder ==
  \A j \in 1..Len(out') :
    (out'[j].k \in Mutating /\ out'[j].obs.k \in Mutating) =>
      /\ \A id \in DOMAIN ghost'.calls :
            ghost'.calls[id].k \in Mutating => ghost'.calls[id].seq > out'[j].obs.seq
      /\ \A i \in 1..(j - 1) :
            (out'[i].k \in Mutating /\ out'[i].obs.k \in Mutating)
              => out'[i].obs.seq < out'[j].obs.seq

\* C18: appends and puts are serialized with each other on one feed: a put
\* never starts its verification or its writes while an append or another put
\* is between its start and its completion callback, and the completion
\* callbacks of appends and puts are invoked in the order the operations were
\* submitted.
C18_PutsSerialized == []OneAtATime /\ [][InSubmissionOrder]_vars

\* C18: two puts have their writes in flight at once
C18_PutsOverlap == Cardinality(DOMAIN puts) > 1

\* C18: a put made after another put has been called back before it
C18_PutOvertaken ==
  \E j \in 1..Len(out) :
    /\ out[j].k = "put" /\ out[j].obs.k = "put"
    /\ \E id \in DOMAIN ghost.calls :
         ghost.calls[id].k = "put" /\ ghost.calls[id].seq < out[j].obs.seq

(***************************************************************************)
(* The completion step of an append.                                       *)
(***************************************************************************)
\* the writes of appends in flight
AppendWrites == {o \in io : o.k = "append"}

\* while a write of a batch is in flight the length is the one the batch
\* started from: the completion step of the batch has not run
NotCompletedEarly ==
  \A o \in AppendWrites : o.id \in DOMAIN appends /\ appends[o.id].start = feed.length

\* the completion step of an append: the length of an opened feed grows
Completes == feed.opened /\ feed'.length > feed.length

\* the completion step is not the step of a failed write, follows no failed
\* write of its batch, and leaves no write of an append in flight
CompletesAfterWrites ==
  Completes =>
    /\ ghost'.fails = ghost.fails
    /\ \A c \in DOMAIN appends : ~appends[c].error
    /\ \A o \in io' : o.k # "append"

\* C19: in every configuration (live or not, indexing or not) and for every
\* batch size including 1, the completion step of an append, which updates
\* length and byteLength, sets the data and tree bits and emits append, runs
\* only after every data, tree-node and signature write issued for that batch
\* has completed, and runs not at all if any of those writes failed.
C19_CompletionAfterWrites == []NotCompletedEarly /\ [][CompletesAfterWrites]_vars

\* C19 holds of the live feeds and of the feeds that store their data
C19_CompletionAfterWritesStored ==
  /\ []((opts.live \/ ~opts.indexing) => NotCompletedEarly)
  /\ [][(opts.live \/ ~opts.indexing) => CompletesAfterWrites]_vars

\* C19: the completion step of a batch of one has run on a feed that is not
\* live and stores no data, and the write of the node of the batch is in
\* flight
C19_CompletedEarly ==
  /\ opts.indexing /\ ~opts.live
  /\ \E o \in AppendWrites : o.op = "putNode" /\ o.node.index = 0 /\ feed.length = 1

(***************************************************************************)
(* The order in which a put persists.                                      *)
(***************************************************************************)
\* the puts made on the opened feed that have writes in flight, by callback
Writing == {puts[p].cb : p \in DOMAIN puts} \cap
             {c \in DOMAIN ghost.calls : ghost.calls[c].k = "put" /\ ghost.calls[c].pre.opened}

\* no bit is set while the writes of a put are in flight
BitsAfterWrites ==
  \A c \in Writing : /\ feed.bitfield = ghost.calls[c].pre.bitfield
                      /\ feed.tree = ghost.calls[c].pre.tree

\* the lengths are those from before the put while its writes are in flight
LengthAfterWrites ==
  \A c \in Writing : /\ feed.length = ghost.calls[c].pre.length
                      /\ feed.byteLength = ghost.calls[c].pre.byteLength

\* the step is the completion of a write of the bitfield
Flushed == \E o \in io \ io' : o.op = "putBitfield"

\* a put that calls back with an error in this step, which is not the step
\* of the flush of the bitfield that follows its writes, has flipped no bit
FailedPutFlipsNothing ==
  \A j \in 1..Len(out') :
    (out'[j].k = "put" /\ out'[j].err /\ ~Flushed) =>
      IF out'[j].id \in DOMAIN ghost.calls /\ ghost.calls[out'[j].id].k = "put"
      THEN ghost.calls[out'[j].id].pre.opened =>
             /\ feed'.bitfield = ghost.calls[out'[j].id].pre.bitfield
             /\ feed'.tree = ghost.calls[out'[j].id].pre.tree
      ELSE feed.opened => (feed'.bitfield = feed.bitfield /\ feed'.tree = feed.tree)

\* C20: for a put, the tree bits and the data bit of the block are set, and
\* any change to length and byteLength becomes visible, only after all
\* tree-node, data and signature writes of that put have completed
\* successfully; if any of those writes fails the put calls back with the
\* error and no bit is flipped.
C20_PutPersistenceOrder ==
  /\ []BitsAfterWrites
  /\ []LengthAfterWrites
  /\ [][FailedPutFlipsNothing]_vars

\* C20 holds of the bits: they are set after the writes, and not at all by a
\* put that fails
C20_PutBitsOrder == []BitsAfterWrites /\ [][FailedPutFlipsNothing]_vars

\* C20: a put made on the opened feed has grown the length, and its writes
\* are in flight
C20_LengthBeforeWrites ==
  \E c \in Writing : feed.length > ghost.calls[c].pre.length /\ io # {}

(***************************************************************************)
(* The life of a feed and its mutations.                                   *)
(***************************************************************************)
\* Unopened 0, Opening 1, Ready 2, Closed 3; close closes the storage in the
\* step it runs in, so that Closing is no state of its own
Phase(f, st) ==
  IF st.closed THEN 3 ELSE IF f.opened THEN 2 ELSE IF f.opening = "wait" THEN 1 ELSE 0

\* the step makes a new instance of the feed
NewInstance == ghost'.reopens # ghost.reopens \/ ghost'.crashes # ghost.crashes

InOrder == ~NewInstance => Phase(feed', storage') >= Phase(feed, storage)

\* what a mutation changes
Untouched ==
  /\ feed'.length = feed.length /\ feed'.byteLength = feed.byteLength
  /\ feed'.bitfield = feed.bitfield /\ feed'.tree = feed.tree
  /\ storage'.nodes = storage.nodes /\ storage'.data = storage.data
  /\ storage'.signatures = storage.signatures /\ storage'.bitfield = storage.bitfield

\* a step taken before open has called back, that is not open calling back
BeforeReady == ~feed.opened /\ ~OpenAnswers /\ ~NewInstance

\* a step taken on a closed feed
AfterClose == storage.closed /\ storage'.closed

\* open calls back without error: the calls that waited for it have run
RunsWaiting == (OpenAnswers /\ feed'.opened) => ready' = << >>

\* C21: the feed moves Unopened, Opening, Ready, Closing, Closed in that
\* order; an append or put submitted before the feed is ready touches no feed
\* state until open has completed and then runs; after close has been
\* called, no append and no put changes length, byteLength, the bits or
\* storage.
C21_LifecycleGating ==
  /\ [][InOrder]_vars
  /\ [][BeforeReady => Untouched]_vars
  /\ [][RunsWaiting]_vars
  /\ [][AfterClose => Untouched]_vars

\* C21, the order of the states
C21_InOrder == [][InOrder]_vars

\* C21, the calls made before the feed is ready
C21_GatedBeforeReady == [][BeforeReady => Untouched]_vars /\ [][RunsWaiting]_vars

\* C21, the calls made after close
C21_GatedAfterClose == [][AfterClose => Untouched]_vars

\* C21: a put made on a closed feed has grown the length
C21_PutAfterClose ==
  /\ storage.closed /\ ghost.last = "close"
  /\ feed.length > ghost.length
  /\ \E c \in DOMAIN ghost.calls : ghost.calls[c].k = "put" /\ ghost.calls[c].pre.closed

(***************************************************************************)
(* The flushes of the bitfield.                                            *)
(***************************************************************************)
Flushes(ops) == {o \in ops : o.op = "putBitfield"}

\* at most one run of _syncBitfield has its write in flight
OneFlush == Cardinality(Flushes(io)) <= 1

\* the bits of the feed, as a flush writes them
Page(f) == [data |-> f.bitfield, tree |-> f.tree]

\* the bits of page a hold those of page b
Covers(a, b) == b.data \subseteq a.data /\ b.tree \subseteq a.tree

\* a flush completes while a sync is waiting: _syncBitfield runs again for
\* the callbacks that waited, and writes the bits the feed has then, which
\* are those it had when the flush completed and those the callbacks of the
\* flush have set since, or finds nothing to write and calls them back
RunsAgain ==
  (Flushes(io) # {} /\ Flushes(io') # Flushes(io) /\ low.pending # << >>) =>
    \/ /\ low'.callbacks = low.pending
       /\ \E o \in Flushes(io') : Covers(o.bits, Page(feed)) /\ Covers(Page(feed'), o.bits)
    \/ ~feed.dirty /\ low'.callback = << >> /\ Len(out') > Len(low.pending)

\* the batch of an _append that calls back without error in this step has
\* its bits in the stored bitfield
AppendFlushed ==
  \A j \in 1..Len(out') :
    (out'[j].k = "_append" /\ ~out'[j].err) =>
      \A k \in 0..(Len(out'[j].batch) - 1) :
        /\ out'[j].start + k \in storage'.bitfield.data
        /\ 2 * (out'[j].start + k) \in storage'.bitfield.tree

\* the block of a put that calls back without error in this step, and that
\* was not held when the put was made, has its bits in the stored bitfield
PutFlushed ==
  \A j \in 1..Len(out') :
    (/\ out'[j].k = "put" /\ ~out'[j].err /\ out'[j].id \in DOMAIN ghost.calls
     /\ ghost.calls[out'[j].id].k = "put"
     /\ ghost.calls[out'[j].id].index \notin ghost.calls[out'[j].id].pre.bitfield) =>
      /\ ghost.calls[out'[j].id].index \in storage'.bitfield.data
      /\ 2 * ghost.calls[out'[j].id].index \in storage'.bitfield.tree

\* no call is outstanding and no storage operation is in flight
Idle == feed.opened /\ io = {} /\ DOMAIN ghost.calls = {}

\* an append or a put has been called back without error in the last step
Succeeded == \E j \in 1..Len(out) : out[j].k \in Mutating /\ ~out[j].err

\* once every call has been called back, the last without error, every bit
\* set is stored
FlushedWhenIdle == (Idle /\ Succeeded) => Covers(storage.bitfield, Page(feed))

\* a bit set is stored, unless a storage operation fails
Written ==
  \A p \in 0..(MaxRemote - 1) :
    (p \in feed.bitfield) ~> (p \in storage.bitfield.data \/ ghost.fails > 0)

\* a call outstanding is called back
CalledBack ==
  \A id \in 1..(MaxSyncCalls + 1) : (id \in DOMAIN ghost.calls) ~> (id \notin DOMAIN ghost.calls)

\* C22: at most one _syncBitfield run is in flight at a time; a sync
\* requested while one is in flight is re-run afterwards against the
\* then-current dirty pages; every page dirtied by an append or put is
\* eventually written to storage (a write that fails apart), and the callback
\* of each append or put is invoked, and only after the pages that operation
\* dirtied have been written: when an append or put has been called back
\* without error and nothing is outstanding, every bit set is stored.
C22_FlushCoalescing ==
  /\ []OneFlush
  /\ [][RunsAgain]_vars
  /\ [][AppendFlushed /\ PutFlushed]_vars
  /\ []FlushedWhenIdle
  /\ Written
  /\ CalledBack

\* C22 holds of the runs in which no flush has failed
C22_FlushCoalescingNoFault ==
  /\ []OneFlush
  /\ [][RunsAgain]_vars
  /\ [][AppendFlushed /\ PutFlushed]_vars
  /\ [](ghost.fails = 0 => FlushedWhenIdle)
  /\ Written
  /\ CalledBack

\* C22: a flush has failed, a later put has been called back without error
\* and nothing is outstanding, and a bit set is not stored
C22_PageLost ==
  Idle /\ Succeeded /\ ghost.fails > 0 /\ ~Covers(storage.bitfield, Page(feed))

\* C22: a flush is in flight, and a sync waits for it to be run again
C22_SyncWaiting == Flushes(io) # {} /\ low.pending # << >> /\ ghost.fails = 0

(***************************************************************************)
(* The positions of the selections.                                        *)
(***************************************************************************)
\* every selection is at the position its _index gives
Indexed(sels) == \A i \in 1..Len(sels) : sels[i]._index = i - 1

Sids(sels) == {sels[i].sid : i \in 1..Len(sels)}

\* an undownload by identity, which calls back the selection it was given,
\* removes that selection and no other
RemovesGiven ==
  \A j \in 1..Len(out') :
    out'[j].k = "download" => Sids(feed'.selections) = Sids(feed.selections) \ {out'[j].id}

\* C23: after any sequence of download and undownload calls, by identity or
\* by matching range, every selection s in the selection set satisfies
\* selections[s._index] == s, so that an undownload by identity always
\* removes exactly the selection it was given and no other.
C23_SelectionIndex == []Indexed(feed.selections) /\ [][RemovesGiven]_vars

\* the step of an undownload by range that removes a selection
ByRange ==
  /\ Len(feed'.selections) < Len(feed.selections)
  /\ \A j \in 1..Len(out') : out'[j].k # "download"

\* C23 holds of download and of undownload by identity: they keep every
\* selection at its position, and from such a state an undownload by
\* identity removes the selection it was given
C23_SelectionIndexKept ==
  [][(Indexed(feed.selections) /\ ~ByRange) => (Indexed(feed'.selections) /\ RemovesGiven)]_vars

\* C23: an undownload by range has removed the first of two selections, and
\* the one that is left is not at the position its _index gives
C23_Misplaced == Len(feed.selections) = 1 /\ feed.selections[1]._index = 1

(***************************************************************************)
(* The Merkle generator and the length.                                    *)
(***************************************************************************)
\* an opened writable feed with no append in flight
NoAppend ==
  /\ feed.opened /\ feed.writable /\ ~storage.closed
  /\ ~batch.running /\ appends = << >> /\ AppendWrites = {}

\* the generator has consumed length leaves, and its roots are the nodes at
\* the full roots of the length
InStep ==
  /\ feed.merkle.blocks = feed.length
  /\ [i \in 1..Len(feed.merkle.roots) |-> feed.merkle.roots[i].index] = FullRoots(2 * feed.length)

\* C24: on an opened writable feed, whenever no append is in flight, the
\* Merkle generator has consumed exactly length leaves, so its roots are the
\* nodes at fullRoots(2 * length); this holds after a successful append,
\* after an append that called back with a storage error, and after a put
\* that extended length.
C24_MerkleInStep == NoAppend => InStep

\* C24 holds of the feeds that store their data, in the runs in which no
\* storage operation has failed
C24_MerkleInStepNoFault == (NoAppend /\ ~opts.indexing /\ ghost.fails = 0) => InStep

\* C24: an append of a feed that stores its data has called back with a
\* storage error, and the generator is ahead of the length
C24_Ahead ==
  /\ NoAppend /\ ~opts.indexing /\ ghost.fails > 0
  /\ feed.merkle.blocks > feed.length
  /\ \E j \in 1..Len(out) : out[j].k = "append" /\ out[j].err

====
